---- MODULE Spec2Model ----
(***************************************************************************)
(* Whisper secret scanner: the scan pipeline of whisper/core/scanner.py    *)
(* (FileScanner construction, file discovery, the per-file tasks of the    *)
(* thread pool, the collection of their results), the classifier adapter   *)
(* of whisper/ai/ollama_client.py, the six detectors of                   *)
(* whisper/core/detectors, run on texts, and the command line of           *)
(* whisper/cli.py with the configuration loading of                        *)
(* whisper/config/settings.py.                                             *)
(*                                                                         *)
(* Conventions.  A string the code inspects character by character is a    *)
(* sequence of tokens, a path is a sequence of names, a confidence is an   *)
(* integer number of tenths (8 is 0.8), a Python tuple is a TLA+ tuple.    *)
(***************************************************************************)
EXTENDS Integers, Sequences, FiniteSets, Bags, TLC

VARIABLES
    patched,         \* SecretClassifier is replaced by a mock (tests) or is the real class
    config,          \* the configuration dictionary given to FileScanner
    root,            \* 0: the root path is the directory; i > 0: it is the single file Tree[i]
    classifierKind,  \* how the (mock) classifier answers
    poolSize,        \* max_workers of the ThreadPoolExecutor
    pc,              \* position of the main thread
    error,           \* exception that left the constructor, "" if none
    detectors,       \* self.detectors
    excluded_paths,  \* self.excluded_paths
    max_file_size,   \* self.max_file_size
    files_to_scan,   \* scan's local list
    submitted,       \* number of files of files_to_scan already submitted
    tasks,           \* the per-file tasks (futures) of the pool
    collected,       \* files whose future as_completed has already handed out
    findings,        \* scan's local result list
    progress,        \* scan was given a Progress object (TRUE) or None (FALSE)
    progress_total,  \* total of the task added to the Progress object
    progress_completed, \* how far that task has been advanced
    o_pc,            \* position inside OllamaClient.classify_candidate
    o_reply,         \* what the HTTP endpoint does for this call
    o_exc,           \* exception propagating inside / out of classify_candidate
    o_data,          \* response_data, then model_output
    o_result,        \* the value classify_candidate returned
    d_pc,            \* a detector under test: "idle", "new" (none built yet), "built"
    d_args,          \* the arguments its constructor was given
    d_self,          \* the attributes of the detector instance
    d_content,       \* the text handed to detect
    d_outs,          \* what each call of detect on the instance yielded, call by call
    c_pc,            \* position of the command-line process
    DEBUG,           \* the module global DEBUG of cli.py
    c_args,          \* the command, its options and what its collaborators will do
    default_config,  \* content of the objects reachable from settings.DEFAULT_CONFIG
    c_config,        \* the dictionary load_config returned to the running command
    c_outcome,       \* how the body of the command left the with block
    c_exit,          \* exit code of the last invocation, -1 while none has ended
    c_runs           \* number of invocations made in this process

scanVars == <<patched, config, root, classifierKind, poolSize, pc, error, detectors,
              excluded_paths, max_file_size, files_to_scan, submitted, tasks,
              collected, findings, progress, progress_total, progress_completed>>
progressVars == <<progress, progress_total, progress_completed>>
ollamaVars == <<o_pc, o_reply, o_exc, o_data, o_result>>
detectVars == <<d_pc, d_args, d_self, d_content, d_outs>>
cliVars == <<c_pc, DEBUG, c_args, default_config, c_config, c_outcome, c_exit, c_runs>>
vars == <<scanVars, ollamaVars, detectVars, cliVars>>

-----------------------------------------------------------------------------
(* Bounds of the model *)

\* pool sizes 1..MaxWorkers are explored
MaxWorkers == 2
\* the first NumFiles entries of Tree exist on disk
NumFiles == 4

-----------------------------------------------------------------------------
(* Generic helpers *)

Min(a, b) == IF a < b THEN a ELSE b

Range(s) == {s[i] : i \in 1..Len(s)}

RECURSIVE SeqToBag(_)
SeqToBag(s) ==
    IF s = <<>> THEN EmptyBag ELSE SetToBag({Head(s)}) (+) SeqToBag(Tail(s))

RECURSIVE Concat(_)
Concat(ss) == IF ss = <<>> THEN <<>> ELSE Head(ss) \o Concat(Tail(ss))

-----------------------------------------------------------------------------
(* _parse_size: a size string is a sequence of one-character tokens *)

Digits == {"0", "1", "2", "3", "4", "5", "6", "7", "8", "9"}

DigitVal(ch) ==
    CASE ch = "0" -> 0 [] ch = "1" -> 1 [] ch = "2" -> 2 [] ch = "3" -> 3
      [] ch = "4" -> 4 [] ch = "5" -> 5 [] ch = "6" -> 6 [] ch = "7" -> 7
      [] ch = "8" -> 8 [] ch = "9" -> 9

\* str.upper() on one character
UpperChar(ch) ==
    CASE ch = "b" -> "B" [] ch = "k" -> "K" [] ch = "m" -> "M" [] ch = "g" -> "G"
      [] OTHER -> ch

Upper(s) == [i \in 1..Len(s) |-> UpperChar(s[i])]

\* str.strip(): leading and trailing whitespace removed
RECURSIVE LStrip(_)
LStrip(s) == IF s # <<>> /\ Head(s) = " " THEN LStrip(Tail(s)) ELSE s

RECURSIVE RStrip(_)
RStrip(s) ==
    IF s # <<>> /\ s[Len(s)] = " " THEN RStrip(SubSeq(s, 1, Len(s) - 1)) ELSE s

Strip(s) == LStrip(RStrip(s))

\* the units dictionary of _parse_size, keyed by the unit's characters
Units == {<<"B">>, <<"K", "B">>, <<"M", "B">>, <<"G", "B">>}

UnitFactor(u) ==
    CASE u = <<"B">> -> 1
      [] u = <<"K", "B">> -> 1024
      [] u = <<"M", "B">> -> 1024 * 1024
      [] u = <<"G", "B">> -> 1024 * 1024 * 1024

RECURSIVE DigitsValue(_, _)
DigitsValue(s, acc) ==
    IF s = <<>> THEN acc ELSE DigitsValue(Tail(s), 10 * acc + DigitVal(Head(s)))

\* int(text): surrounding whitespace and one sign are accepted, then digits only;
\* anything else is a ValueError
PyInt(text) ==
    LET t == Strip(text)
        signed == t # <<>> /\ Head(t) \in {"+", "-"}
        body == IF signed THEN Tail(t) ELSE t
        ok == body # <<>> /\ \A i \in 1..Len(body) : body[i] \in Digits
        mag == IF ok THEN DigitsValue(body, 0) ELSE 0
    IN  [ok |-> ok, val |-> IF signed /\ Head(t) = "-" THEN 0 - mag ELSE mag]

\* size_str[-n:] and size_str[:-n]
LastN(s, n) == SubSeq(s, Len(s) - Min(n, Len(s)) + 1, Len(s))
DropLastN(s, n) == SubSeq(s, 1, Len(s) - Min(n, Len(s)))

\* _parse_size(size_str): [raised |-> exception that escapes ("" if none), value |-> bytes]
ParseSize(size_str) ==
    LET s == Strip(Upper(size_str))
        two == LastN(s, 2)
        num2 == PyInt(DropLastN(s, 2))
        num1 == PyInt(DropLastN(s, 1))
    IN  IF two \in Units
        THEN IF num2.ok THEN [raised |-> "", value |-> num2.val * UnitFactor(two)]
                        ELSE [raised |-> "", value |-> 0]
        ELSE IF s = <<>>
        THEN [raised |-> "IndexError", value |-> 0]
        ELSE IF <<s[Len(s)]>> \in Units
        THEN IF num1.ok THEN [raised |-> "", value |-> num1.val * UnitFactor(<<s[Len(s)]>>)]
                        ELSE [raised |-> "", value |-> 0]
        ELSE [raised |-> "", value |-> 0]

-----------------------------------------------------------------------------
(* Path.match as FileScanner._is_excluded uses it.  A name is a sequence of *)
(* tokens, "*" being the fnmatch wildcard; a path or a pattern is a         *)
(* sequence of names.                                                       *)

\* fnmatch.fnmatchcase(name, pat) for patterns made of literals and "*"
RECURSIVE FnMatch(_, _)
FnMatch(name, pat) ==
    IF pat = <<>> THEN name = <<>>
    ELSE IF Head(pat) = "*"
         THEN FnMatch(name, Tail(pat)) \/ (name # <<>> /\ FnMatch(Tail(name), pat))
         ELSE name # <<>> /\ Head(name) = Head(pat) /\ FnMatch(Tail(name), Tail(pat))

\* PurePath.match(pattern) for a relative pattern: the pattern's parts are matched
\* one to one against the LAST parts of the path; "**" is an ordinary "*" here
PathMatch(path, pattern) ==
    /\ Len(pattern) <= Len(path)
    /\ \A i \in 1..Len(pattern) :
          FnMatch(path[Len(path) - Len(pattern) + i], pattern[i])

-----------------------------------------------------------------------------
(* The file tree under the root directory "proj".  A file's content is     *)
(* abstracted to the text features the detectors react to: the webhook     *)
(* URLs it holds and its key assignments.                                  *)

StarStar == <<"*", "*">>

Tree == <<
    [path |-> << <<"proj">>, <<"app", ".py">> >>, size |-> 5, readable |-> TRUE,
     content |-> [hooks |-> <<"hookA">>,
                  keys |-> << [value |-> "k1", line_num |-> 1, line |-> "key = 'k1'"] >>]],
    [path |-> << <<"proj">>, <<"node_modules">>, <<"lib", ".js">> >>, size |-> 6,
     readable |-> TRUE,
     content |-> [hooks |-> <<"hookB">>, keys |-> <<>>]],
    [path |-> << <<"proj">>, <<"node_modules">>, <<"pkg">>, <<"index", ".js">> >>,
     size |-> 1024, readable |-> TRUE,
     content |-> [hooks |-> <<"hookC", "hookD">>, keys |-> <<>>]],
    [path |-> << <<"proj">>, <<"big", ".bin">> >>, size |-> 1025, readable |-> FALSE,
     content |-> [hooks |-> <<"hookF">>, keys |-> <<>>]],
    [path |-> << <<"proj">>, <<"yarn", ".lock">> >>, size |-> 3, readable |-> TRUE,
     content |-> [hooks |-> <<"hookE">>, keys |-> <<>>]],
    [path |-> << <<"proj">>, <<"locked", ".txt">> >>, size |-> 4, readable |-> FALSE,
     content |-> [hooks |-> <<>>, keys |-> <<>>]]
>>

Files == 1..Min(NumFiles, Len(Tree))

\* the files root_path.rglob("*") enumerates, or the root itself when it is a file
FilesUnder(r) == IF r = 0 THEN Files ELSE {r}

-----------------------------------------------------------------------------
(* Configurations *)

\* "**/node_modules/**" and "**/*.lock" of DEFAULT_CONFIG
PatNodeModules == <<StarStar, <<"node_modules">>, StarStar>>
PatLock == <<StarStar, <<"*", ".lock">>>>

ExcludedPathsChoices == { <<>>, <<PatNodeModules, PatLock>> }

MaxFileSizeChoices == { <<"0">>, <<"5", "B">>, <<"1", "k", "b">> }

\* ai.confidence_threshold: a number (tenths), absent, or a string from the YAML file
ThresholdChoices ==
    { [kind |-> "num", val |-> 5], [kind |-> "missing", val |-> 0],
      [kind |-> "str", val |-> 0] }

\* rules.detectors, in declaration order: the name of each entry and its block, a
\* dictionary that may hold "enabled" and the keyword arguments of the detector
DetectorsChoices ==
    { << [name |-> "discord_webhook", block |-> [enabled |-> TRUE]],
         [name |-> "regex", block |-> [enabled |-> TRUE, rules |-> <<"api_key">>]] >>,
      << [name |-> "mock", block |-> [enabled |-> TRUE, label |-> "m"]],
         [name |-> "discord_webhook", block |-> [enabled |-> TRUE]],
         [name |-> "regex", block |-> [enabled |-> FALSE, rules |-> <<"api_key">>]],
         [name |-> "typo_detector", block |-> [enabled |-> TRUE]] >>,
      << [name |-> "regex", block |-> [rules |-> <<"api_key">>]],
         [name |-> "mock", block |-> [label |-> "m", enabled |-> TRUE, depth |-> 2]],
         [name |-> "discord_webhook", block |-> [enabled |-> FALSE]] >> }

Configs ==
    [confidence_threshold : ThresholdChoices,
     excluded_paths : ExcludedPathsChoices,
     max_file_size : MaxFileSizeChoices,
     detectors : DetectorsChoices]

\* the names _load_detector_registry finds
DetectorRegistry == {"regex", "discord_webhook", "mock"}

ClassifierKinds == {"confirm", "reject", "picky"}

-----------------------------------------------------------------------------
(* Detectors, as the scanner sees them: detect(content) -> tuples *)

\* RegexDetector.detect yields (candidate, line_num, line.strip(), "Regex")
RegexDetect(content) ==
    [i \in 1..Len(content.keys) |->
        <<content.keys[i].value, content.keys[i].line_num, content.keys[i].line, "Regex">>]

\* DiscordWebhookDetector.detect yields
\* (secret, 0.8, "discord_webhook", "DiscordWebhookDetector", "Discord Webhook URL")
DiscordWebhookDetect(content) ==
    [i \in 1..Len(content.hooks) |->
        <<content.hooks[i], 8, "discord_webhook", "DiscordWebhookDetector",
          "Discord Webhook URL">>]

\* the MagicMock detector of the scanner tests: detect.return_value is a fixed list
MockDetect(content) ==
    << <<"test_secret", 6, "TestDetector", "regex", "test context">>,
       <<"another_secret", 8, "TestDetector", "regex", "">> >>

Detect(name, content) ==
    CASE name = "regex" -> RegexDetect(content)
      [] name = "discord_webhook" -> DiscordWebhookDetect(content)
      [] name = "mock" -> MockDetect(content)

-----------------------------------------------------------------------------
(* The classifier behind self.classifier.classify *)

\* classify(candidate, context) of the mock classifier: what it returns, or that it raises
Classify(kind, candidate, context) ==
    CASE kind = "confirm" ->
            [raised |-> FALSE, is_secret |-> TRUE, has_reason |-> TRUE,
             reason |-> "Mocked AI validation"]
      [] kind = "reject" ->
            [raised |-> FALSE, is_secret |-> FALSE, has_reason |-> TRUE,
             reason |-> "looks like a placeholder"]
      [] kind = "picky" ->
            IF candidate = "hookD"
            THEN [raised |-> TRUE, is_secret |-> FALSE, has_reason |-> FALSE, reason |-> ""]
            ELSE IF candidate \in {"hookA", "hookC", "test_secret"}
            THEN [raised |-> FALSE, is_secret |-> TRUE, has_reason |-> FALSE, reason |-> ""]
            ELSE [raised |-> FALSE, is_secret |-> FALSE, has_reason |-> TRUE,
                  reason |-> "test data"]

\* SecretClassifier.__init__(self) called with the given keyword arguments: the
\* exception it raises, "" if none.  It accepts no keyword argument; its body loads
\* the configuration itself and accepts only the provider "ollama".
SecretClassifierInit(kwargs, loadedPrimary) ==
    IF kwargs # {} THEN "TypeError"
    ELSE IF loadedPrimary = "ollama" THEN "" ELSE "ValueError"

-----------------------------------------------------------------------------
(* FileScanner *)

\* the loop with the dictionary comprehension left out: the whole block is passed
BuildDetectors_WholeBlock(detectors_config) ==
    LET kept == SelectSeq(detectors_config,
                          LAMBDA e : /\ "enabled" \in DOMAIN e.block
                                     /\ e.block["enabled"]
                                     /\ e.name \in DetectorRegistry)
    IN  [i \in 1..Len(kept) |-> [name |-> kept[i].name, kwargs |-> kept[i].block]]

\* the detectors __init__ instantiates, in declaration order: the class registered
\* under the name and the keyword arguments it is called with
BuildDetectors(detectors_config) ==
    LET kept == SelectSeq(detectors_config,
                          LAMBDA e : /\ "enabled" \in DOMAIN e.block   \* .get("enabled")
                                     /\ e.block["enabled"]
                                     /\ e.name \in DetectorRegistry)
    IN  [i \in 1..Len(kept) |->
            [name |-> kept[i].name,
             kwargs |-> [k \in DOMAIN kept[i].block \ {"enabled"} |-> kept[i].block[k]]]]

\* _is_excluded with the size test written >= : a file of exactly the limit is dropped
IsExcluded_SizeGE(f, patterns, maxSize) ==
    \/ \E i \in 1..Len(patterns) : PathMatch(Tree[f].path, patterns[i])
    \/ (maxSize > 0 /\ Tree[f].size >= maxSize)

\* FileScanner._is_excluded(path) for the file Tree[f]
IsExcluded(f, patterns, maxSize) ==
    \/ \E i \in 1..Len(patterns) : PathMatch(Tree[f].path, patterns[i])
    \/ (maxSize > 0 /\ Tree[f].size > maxSize)

\* list(...) without the exclusion test: every file under the root is kept
FindFilesToScan_Unfiltered(r, patterns, maxSize) ==
    SelectSeq([i \in 1..Cardinality(Files) |-> i], LAMBDA f : f \in FilesUnder(r))

\* list(self._find_files_to_scan()): the files under the root that are not excluded
FindFilesToScan(r, patterns, maxSize) ==
    LET all == [i \in 1..Cardinality(Files) |-> i]
    IN  SelectSeq(all, LAMBDA f : f \in FilesUnder(r) /\ ~IsExcluded(f, patterns, maxSize))

\* FileScanner._find_candidates_in_file: everything the generator yields when it is
\* consumed to its end; an unreadable file yields nothing
FindCandidatesInFile(f, dets) ==
    IF ~Tree[f].readable THEN <<>>
    ELSE Concat([i \in 1..Len(dets) |-> Detect(dets[i].name, Tree[f].content)])

\* self.config.get("ai", {}).get("confidence_threshold", 0.8)
ConfidenceThreshold(cfg) ==
    IF cfg.confidence_threshold.kind = "missing"
    THEN [kind |-> "num", val |-> 8]
    ELSE cfg.confidence_threshold

\* the test of line 119 with its operands swapped
PassesThreshold_Reversed(confidence, threshold) == threshold >= confidence

\* the test of line 119, on numbers
PassesThreshold(confidence, threshold) == confidence >= threshold

\* what _process_file does with one yielded tuple before it reaches the classifier
CandidateStep(cand, cfg) ==
    LET thr == ConfidenceThreshold(cfg)
    IN  IF Len(cand) # 5 THEN "ValueError"          \* the 5-name unpacking fails
        ELSE IF thr.kind # "num" THEN "TypeError"   \* float >= str
        ELSE IF PassesThreshold(cand[2], thr.val) THEN "classify"
        ELSE "skip"

ContextLine(cand) == cand[5]

\* the dictionary _process_file appends
MakeFinding(f, cand, ai_result) ==
    [file |-> f, line |-> 1, secret_value |-> cand[1],
     reason |-> IF ai_result.has_reason THEN ai_result.reason ELSE "No reason provided.",
     detector |-> cand[3]]

\* the result list assigned instead of extended
ExtendFindings_Overwrite(acc, result) == result

\* the result inserted in front of the list instead of appended to it
ExtendFindings_Prepend(acc, result) == result \o acc

\* findings.extend(future.result())
ExtendFindings(acc, result) == acc \o result

\* progress.update(task_id, advance=1) placed inside the try block, after the result
AdvanceProgress_OnSuccess(completed, taskState) ==
    IF taskState = "returned" THEN completed + 1 ELSE completed

\* progress.update(task_id, advance=1), line 166: before the future's result is read
AdvanceProgress(completed, taskState) == completed + 1

\* an except clause that catches nothing
GeneratorCatches_Nothing(exc) == FALSE

\* "except (IOError, UnicodeDecodeError)" of _find_candidates_in_file
GeneratorCatches(exc) == exc \in {"IOError", "UnicodeDecodeError"}

\* file_path.open(...) and f.read(): the exception raised, "" if none; decoding
\* uses errors="ignore" and cannot fail
OpenAndRead(f) == IF Tree[f].readable THEN "" ELSE "IOError"

NoTask == [state |-> "none", next |-> 1, file_findings |-> <<>>, calls |-> <<>>, exc |-> ""]

Busy == {f \in Files : tasks[f].state \in {"running", "classifying"}}

AllSubmitted == submitted = Len(files_to_scan)

\* a pool that runs one task at a time whatever max_workers is
WorkerFree_Serial == Busy = {}

\* the ThreadPoolExecutor has a worker that is not running a task
WorkerFree == Cardinality(Busy) < poolSize

\* settings.DEFAULT_CONFIG as the module defines it.  A value is a record tagged by
\* its type t: a dict carries its items d, a list its elements l, a number n (the
\* confidence threshold in tenths), a string s (a size string as its tokens).
DEFAULT_CONFIG ==
    [ai |-> [t |-> "dict",
             d |-> [primary |-> [t |-> "str", s |-> "ollama"],
                    model |-> [t |-> "str", s |-> "whisper/secrets-detector:latest"],
                    confidence_threshold |-> [t |-> "num", n |-> 8],
                    fallback |-> [t |-> "dict",
                                  d |-> [enabled |-> [t |-> "bool", b |-> FALSE]]]]],
     rules |-> [t |-> "dict",
                d |-> [excluded_paths |-> [t |-> "list",
                                           l |-> <<"**/node_modules/**", "**/*.lock">>],
                       max_file_size |-> [t |-> "str", s |-> "5MB"]]]]

\* no command is running and no configuration was ever loaded
CliIdle ==
    /\ c_pc = "idle"
    /\ DEBUG = FALSE
    /\ c_args = <<>>
    /\ default_config = DEFAULT_CONFIG
    /\ c_config = <<>>
    /\ c_outcome = [kind |-> "none"]
    /\ c_exit = -1
    /\ c_runs = 0

\* no detector is under test
DetectIdle ==
    d_pc = "idle" /\ d_args = <<>> /\ d_self = <<>> /\ d_content = <<>> /\ d_outs = <<>>

OllamaIdle ==
    /\ o_pc = "idle"
    /\ o_reply = [kind |-> "none"]
    /\ o_exc = ""
    /\ o_data = [t |-> "none"]
    /\ o_result = [t |-> "none"]

Init ==
    /\ patched \in BOOLEAN
    /\ config \in Configs
    /\ root \in {0} \cup Files
    /\ classifierKind \in ClassifierKinds
    /\ poolSize \in 1..MaxWorkers
    /\ pc = "new"
    /\ error = ""
    /\ detectors = <<>>
    /\ excluded_paths = <<>>
    /\ max_file_size = 0
    /\ files_to_scan = <<>>
    /\ submitted = 0
    /\ tasks = [f \in Files |-> NoTask]
    /\ collected = {}
    /\ findings = <<>>
    /\ progress \in BOOLEAN
    /\ progress_total = 0
    /\ progress_completed = 0
    /\ OllamaIdle
    /\ DetectIdle
    /\ CliIdle

\* FileScanner.__init__(root_path, config=config)
Construct ==
    /\ pc = "new"
    /\ LET e == IF patched THEN "" ELSE SecretClassifierInit({"config"}, "ollama")
           ps == ParseSize(config.max_file_size)
       IN  IF e # ""
           THEN /\ pc' = "ctor_error"
                /\ error' = e
                /\ UNCHANGED <<detectors, excluded_paths, max_file_size>>
           ELSE IF ps.raised # ""
           THEN /\ pc' = "ctor_error"
                /\ error' = ps.raised
                /\ detectors' = BuildDetectors(config.detectors)
                /\ excluded_paths' = config.excluded_paths
                /\ UNCHANGED max_file_size
           ELSE /\ pc' = "constructed"
                /\ detectors' = BuildDetectors(config.detectors)
                /\ excluded_paths' = config.excluded_paths
                /\ max_file_size' = ps.value
                /\ UNCHANGED error
    /\ UNCHANGED <<patched, config, root, classifierKind, poolSize, files_to_scan,
                   submitted, tasks, collected, findings, ollamaVars, detectVars, cliVars, progressVars>>

\* scan(), lines 151-156: findings = [], the discovery of the files, progress.add_task
Discover ==
    /\ pc = "constructed"
    /\ files_to_scan' = FindFilesToScan(root, excluded_paths, max_file_size)
    /\ findings' = <<>>
    /\ progress_total' = IF progress THEN Len(files_to_scan') ELSE progress_total
    /\ pc' = "scanning"
    /\ UNCHANGED <<patched, config, root, classifierKind, poolSize, error, detectors,
                   excluded_paths, max_file_size, submitted, tasks, collected,
                   ollamaVars, detectVars, cliVars, progress, progress_completed>>

\* executor.submit(self._process_file, file_path) for the next file of the list
Submit ==
    /\ pc = "scanning"
    /\ submitted < Len(files_to_scan)
    /\ LET f == files_to_scan[submitted + 1]
       IN  tasks' = [tasks EXCEPT ![f].state = "queued"]
    /\ submitted' = submitted + 1
    /\ UNCHANGED <<patched, config, root, classifierKind, poolSize, pc, error, detectors,
                   excluded_paths, max_file_size, files_to_scan, collected, findings,
                   ollamaVars, detectVars, cliVars, progressVars>>

\* a free worker takes the oldest queued task: _process_file starts, the generator
\* opens and reads the file
StartTask(f) ==
    /\ tasks[f].state = "queued"
    /\ WorkerFree
    /\ \A i \in 1..submitted :
          tasks[files_to_scan[i]].state = "queued" =>
              \E j \in 1..i : files_to_scan[j] = f
    /\ LET exc == OpenAndRead(f)
       IN  tasks' = IF exc = "" \/ GeneratorCatches(exc)
                    THEN [tasks EXCEPT ![f].state = "running", ![f].next = 1]
                    ELSE [tasks EXCEPT ![f].state = "raised", ![f].exc = exc]
    /\ UNCHANGED <<patched, config, root, classifierKind, poolSize, pc, error, detectors,
                   excluded_paths, max_file_size, files_to_scan, submitted, collected,
                   findings, ollamaVars, detectVars, cliVars, progressVars>>

\* one iteration of the loop of _process_file up to the classifier call
ProcessCandidate(f) ==
    /\ tasks[f].state = "running"
    /\ LET cands == FindCandidatesInFile(f, detectors)
           k == tasks[f].next
       IN  /\ k <= Len(cands)
           /\ LET step == CandidateStep(cands[k], config)
              IN  tasks' =
                    CASE step = "classify" ->
                           [tasks EXCEPT ![f].state = "classifying",
                                         ![f].calls = Append(@, <<cands[k][1],
                                                                  ContextLine(cands[k])>>)]
                      [] step = "skip" -> [tasks EXCEPT ![f].next = k + 1]
                      [] OTHER -> [tasks EXCEPT ![f].state = "raised", ![f].exc = step]
    /\ UNCHANGED <<patched, config, root, classifierKind, poolSize, pc, error, detectors,
                   excluded_paths, max_file_size, files_to_scan, submitted, collected,
                   findings, ollamaVars, detectVars, cliVars, progressVars>>

\* self.classifier.classify returns (or raises) and the finding is appended
ClassifyReturn(f) ==
    /\ tasks[f].state = "classifying"
    /\ LET cands == FindCandidatesInFile(f, detectors)
           k == tasks[f].next
           ai_result == Classify(classifierKind, cands[k][1], ContextLine(cands[k]))
       IN  tasks' =
             IF ai_result.raised
             THEN [tasks EXCEPT ![f].state = "raised", ![f].exc = "Exception"]
             ELSE [tasks EXCEPT ![f].state = "running", ![f].next = k + 1,
                                ![f].file_findings =
                                    Append(@, MakeFinding(f, cands[k], ai_result))]
    /\ UNCHANGED <<patched, config, root, classifierKind, poolSize, pc, error, detectors,
                   excluded_paths, max_file_size, files_to_scan, submitted, collected,
                   findings, ollamaVars, detectVars, cliVars, progressVars>>

\* the generator is exhausted: return file_findings
TaskReturn(f) ==
    /\ tasks[f].state = "running"
    /\ tasks[f].next > Len(FindCandidatesInFile(f, detectors))
    /\ tasks' = [tasks EXCEPT ![f].state = "returned"]
    /\ UNCHANGED <<patched, config, root, classifierKind, poolSize, pc, error, detectors,
                   excluded_paths, max_file_size, files_to_scan, submitted, collected,
                   findings, ollamaVars, detectVars, cliVars, progressVars>>

\* an except clause for I/O errors only
ScanCatches_OnlyIOError(exc) == exc \in {"IOError", "UnicodeDecodeError"}

\* "except Exception" of scan, lines 169-171: the exceptions a task can end with
\* all derive from Exception
ScanCatches(exc) ==
    exc \in {"Exception", "ValueError", "TypeError", "IOError", "UnicodeDecodeError"}

\* one iteration of "for future in as_completed(future_to_file)"
Collect(f) ==
    /\ pc = "scanning"
    /\ AllSubmitted
    /\ f \notin collected
    /\ tasks[f].state \in {"returned", "raised"}
    /\ findings' = IF tasks[f].state = "returned"
                   THEN ExtendFindings(findings, tasks[f].file_findings)
                   ELSE findings
    /\ collected' = collected \cup {f}
    /\ progress_completed' = IF progress
                              THEN AdvanceProgress(progress_completed, tasks[f].state)
                              ELSE progress_completed
    /\ IF tasks[f].state = "raised" /\ ~ScanCatches(tasks[f].exc)
       THEN pc' = "scan_raised" /\ error' = tasks[f].exc    \* future.result() re-raises
       ELSE UNCHANGED <<pc, error>>
    /\ UNCHANGED <<patched, config, root, classifierKind, poolSize, detectors,
                   excluded_paths, max_file_size, files_to_scan, submitted, tasks,
                   ollamaVars, detectVars, cliVars, progress, progress_total>>

\* every future was handed out: the executor is shut down and scan returns findings
ScanReturn ==
    /\ pc = "scanning"
    /\ AllSubmitted
    /\ collected = Range(files_to_scan)
    /\ pc' = "returned"
    /\ UNCHANGED <<patched, config, root, classifierKind, poolSize, error, detectors,
                   excluded_paths, max_file_size, files_to_scan, submitted, tasks,
                   collected, findings, ollamaVars, detectVars, cliVars, progressVars>>

Next ==
    \/ Construct
    \/ Discover
    \/ Submit
    \/ \E f \in Files : StartTask(f)
    \/ \E f \in Files : ProcessCandidate(f)
    \/ \E f \in Files : ClassifyReturn(f)
    \/ \E f \in Files : TaskReturn(f)
    \/ \E f \in Files : Collect(f)
    \/ ScanReturn

Spec == Init /\ [][Next]_vars

-----------------------------------------------------------------------------
(* OllamaClient.classify_candidate.  A JSON value is a record tagged by    *)
(* its type t; "absent" marks a missing key, "notjson" a text that does    *)
(* not parse.                                                              *)

JBool(b) == [t |-> "bool", b |-> b]
JStr(s) == [t |-> "str", s |-> s]
JNum == [t |-> "num"]
JNull == [t |-> "null"]
JList == [t |-> "list"]
JAbsent == [t |-> "absent"]

\* what the model may put under "is_secret" and under "reason"
IsSecretValues == {JAbsent, JBool(TRUE), JBool(FALSE), JStr("yes"), JNull}
ReasonValues == {JAbsent, JStr("hardcoded key"), JStr(""), JNum, JNull}

\* what the text under "response" decodes to
InnerValues ==
    {[t |-> "notjson"], JList, JNum, JNull, JStr("text")}
      \cup [t : {"obj"}, is_secret : IsSecretValues, reason : ReasonValues]

\* the value under the key "response" of the body
ResponseFieldValues ==
    {JAbsent, JNum, JNull, JList} \cup [t : {"str"}, inner : InnerValues]

\* the body of the HTTP response; a text that is not JSON makes response.json()
\* raise requests' JSONDecodeError (a RequestException) or, with older versions of
\* requests, json.JSONDecodeError
Bodies ==
    [t : {"notjson"}, raises : {"RequestException", "JSONDecodeError"}]
      \cup {JList, JNum, JNull, JStr("text")}
      \cup [t : {"obj"}, response : ResponseFieldValues]

Replies ==
    {[kind |-> "ConnectionError"], [kind |-> "Timeout"]}
      \cup [kind : {"http"}, status : {200, 404, 500}, body : Bodies]

ScanIdle ==
    /\ patched = TRUE
    /\ config = [confidence_threshold |-> [kind |-> "missing", val |-> 0],
                 excluded_paths |-> <<>>,
                 max_file_size |-> <<"0">>,
                 detectors |-> <<>>]
    /\ root = 0
    /\ classifierKind = "confirm"
    /\ poolSize = 1
    /\ pc = "idle"
    /\ error = ""
    /\ detectors = <<>>
    /\ excluded_paths = <<>>
    /\ max_file_size = 0
    /\ files_to_scan = <<>>
    /\ submitted = 0
    /\ tasks = [f \in Files |-> NoTask]
    /\ collected = {}
    /\ findings = <<>>
    /\ progress = FALSE
    /\ progress_total = 0
    /\ progress_completed = 0

InitOllama ==
    /\ ScanIdle
    /\ DetectIdle
    /\ CliIdle
    /\ o_pc = "start"
    /\ o_reply \in Replies
    /\ o_exc = ""
    /\ o_data = [t |-> "none"]
    /\ o_result = [t |-> "none"]

\* requests.post(self.api_url, json=payload, timeout=30)
Post ==
    /\ o_pc = "start"
    /\ IF o_reply.kind \in {"ConnectionError", "Timeout"}
       THEN o_pc' = "except" /\ o_exc' = "RequestException"
       ELSE o_pc' = "posted" /\ o_exc' = o_exc
    /\ UNCHANGED <<o_reply, o_data, o_result, scanVars, detectVars, cliVars>>

\* response.raise_for_status()
RaiseForStatus ==
    /\ o_pc = "posted"
    /\ IF o_reply.status >= 400
       THEN o_pc' = "except" /\ o_exc' = "RequestException"
       ELSE o_pc' = "status_ok" /\ o_exc' = o_exc
    /\ UNCHANGED <<o_reply, o_data, o_result, scanVars, detectVars, cliVars>>

\* response_data = response.json()
ResponseJson ==
    /\ o_pc = "status_ok"
    /\ IF o_reply.body.t = "notjson"
       THEN o_pc' = "except" /\ o_exc' = o_reply.body.raises /\ o_data' = o_data
       ELSE o_pc' = "parsed" /\ o_exc' = o_exc /\ o_data' = o_reply.body
    /\ UNCHANGED <<o_reply, o_result, scanVars, detectVars, cliVars>>

\* model_output = json.loads(response_data.get("response", "{}"))
JsonLoads ==
    /\ o_pc = "parsed"
    /\ LET field == IF o_data.t = "obj" THEN o_data.response ELSE JAbsent
           \* the default "{}" decodes to the empty object
           text == IF field.t = "absent"
                   THEN [t |-> "str", inner |-> [t |-> "obj", is_secret |-> JAbsent,
                                                 reason |-> JAbsent]]
                   ELSE field
       IN  IF o_data.t # "obj"
           THEN o_pc' = "except" /\ o_exc' = "AttributeError" /\ o_data' = o_data
           ELSE IF text.t # "str"
           THEN o_pc' = "except" /\ o_exc' = "TypeError" /\ o_data' = o_data
           ELSE IF text.inner.t = "notjson"
           THEN o_pc' = "except" /\ o_exc' = "JSONDecodeError" /\ o_data' = o_data
           ELSE o_pc' = "loaded" /\ o_exc' = o_exc /\ o_data' = text.inner
    /\ UNCHANGED <<o_reply, o_result, scanVars, detectVars, cliVars>>

\* dict.get(key, default) on a decoded object
GetOr(value, default) == IF value.t = "absent" THEN default ELSE value

\* the return statement of the try block
ModelVerdict(model_output) ==
    [t |-> "dict",
     is_secret |-> GetOr(model_output.is_secret, JBool(FALSE)),
     reason |-> GetOr(model_output.reason, JStr("Failed to parse model output."))]

BuildResult ==
    /\ o_pc = "loaded"
    /\ IF o_data.t # "obj"
       THEN o_pc' = "except" /\ o_exc' = "AttributeError" /\ o_result' = o_result
       ELSE o_pc' = "returned" /\ o_exc' = o_exc /\ o_result' = ModelVerdict(o_data)
    /\ UNCHANGED <<o_reply, o_data, scanVars, detectVars, cliVars>>

\* the exception classes the two except clauses catch
CaughtByHandlers == {"RequestException", "JSONDecodeError"}

\* the value an except clause returns
FailureVerdict(exc) ==
    [t |-> "dict", is_secret |-> JBool(FALSE),
     reason |-> IF exc = "RequestException"
                THEN JStr("Ollama API request failed: ...")
                ELSE JStr("Failed to decode JSON response from model.")]

\* the except clauses; any other exception leaves classify_candidate
HandleException ==
    /\ o_pc = "except"
    /\ IF o_exc \in CaughtByHandlers
       THEN o_pc' = "returned" /\ o_result' = FailureVerdict(o_exc)
       ELSE o_pc' = "raised" /\ o_result' = o_result
    /\ UNCHANGED <<o_reply, o_exc, o_data, scanVars, detectVars, cliVars>>

NextOllama ==
    \/ Post
    \/ RaiseForStatus
    \/ ResponseJson
    \/ JsonLoads
    \/ BuildResult
    \/ HandleException

SpecOllama == InitOllama /\ [][NextOllama]_vars

-----------------------------------------------------------------------------
(* Properties of the scan *)

\* every finding a task has appended or scan has collected
AllFindings ==
    Range(findings) \cup UNION {Range(tasks[f].file_findings) : f \in Files}

\* the tuples of file f that carry the value v
CandidatesWithValue(f, v) ==
    {c \in Range(FindCandidatesInFile(f, detectors)) : c[1] = v}

Constructed == pc \in {"constructed", "scanning", "returned"}
Discovered == pc \in {"scanning", "returned"}

\* C1: a finding is emitted for a candidate only if the classifier's result for that
\* candidate has is_secret = true; a candidate the classifier rejects gives no finding.
C1_FindingOnlyIfSecret ==
    \A fd \in AllFindings :
        \E c \in CandidatesWithValue(fd.file, fd.secret_value) :
            LET r == Classify(classifierKind, c[1], ContextLine(c))
            IN  ~r.raised /\ r.is_secret

\* C2: classify is never called for a candidate whose confidence is strictly below the
\* configured threshold, and every finding comes from a candidate whose confidence
\* was at least the threshold.
C2_ConfidenceFilter ==
    LET thr == ConfidenceThreshold(config)
        ok(f, v) == /\ thr.kind = "num"
                    /\ CandidatesWithValue(f, v) # {}
                    /\ \A c \in CandidatesWithValue(f, v) :
                          Len(c) = 5 /\ ~(c[2] < thr.val)
    IN  /\ \A f \in Files : \A i \in 1..Len(tasks[f].calls) : ok(f, tasks[f].calls[i][1])
        /\ \A fd \in AllFindings : ok(fd.file, fd.secret_value)

\* C2 witness: a task has skipped a candidate below the threshold, has passed another
\* one to the classifier, and scan has returned that one as a finding.
C2_Witness ==
    /\ pc = "returned"
    /\ \E f \in Files :
          /\ \E c \in Range(FindCandidatesInFile(f, detectors)) :
                Len(c) = 5 /\ c[2] < ConfidenceThreshold(config).val
          /\ Len(tasks[f].calls) > 0
          /\ \E fd \in Range(findings) : fd.file = f

\* C3: with a classifier that confirms every candidate (and no candidate below the
\* threshold), _process_file returns one finding per candidate of every detector, in
\* detector order then candidate order, whichever detector produced the candidate.
C3_OneFindingPerCandidate ==
    \A f \in Files :
        LET cands == FindCandidatesInFile(f, detectors)
            thr == ConfidenceThreshold(config)
        IN  ( /\ tasks[f].state \in {"returned", "raised"}
              /\ classifierKind = "confirm"
              /\ thr.kind = "num"
              /\ \A c \in Range(cands) : Len(c) = 5 => c[2] >= thr.val )
            => /\ tasks[f].state = "returned"
               /\ [i \in 1..Len(tasks[f].file_findings) |->
                       tasks[f].file_findings[i].secret_value]
                    = [i \in 1..Len(cands) |-> cands[i][1]]

\* a configuration the specification calls valid: a numeric (or default) threshold and
\* no enabled detector name missing from the registry
UnregisteredEnabled(cfg) ==
    \E i \in 1..Len(cfg.detectors) :
        /\ "enabled" \in DOMAIN cfg.detectors[i].block
        /\ cfg.detectors[i].block["enabled"]
        /\ cfg.detectors[i].name \notin DetectorRegistry

ThresholdUnparsable(cfg) == cfg.confidence_threshold.kind = "str"

ValidConfig(cfg) == ~UnregisteredEnabled(cfg) /\ ~ThresholdUnparsable(cfg)

\* C4: constructing FileScanner(root, config=cfg) with an explicit valid configuration
\* succeeds without raising.
C4_ConstructSucceeds ==
    (ValidConfig(config) /\ pc # "new") => (Constructed /\ error = "")

\* C5: a configuration that enables a detector name missing from the registry makes
\* the construction of the scanner fail; no scan runs with that detector missing.
C5_UnregisteredIsError ==
    UnregisteredEnabled(config) => pc \in {"new", "ctor_error"}

\* C6: an ai.confidence_threshold that is not a number is fatal and surfaced before any
\* file task is submitted or any file is read; scan never returns normally with it.
C6_BadThresholdFatal ==
    ThresholdUnparsable(config) =>
        /\ pc # "returned"
        /\ \A f \in Files : tasks[f].state = "none"

\* glob semantics in which "**" spans any number of directories
RECURSIVE GlobMatch(_, _)
GlobMatch(path, pattern) ==
    IF pattern = <<>> THEN path = <<>>
    ELSE IF Head(pattern) = StarStar
         THEN GlobMatch(path, Tail(pattern))
                \/ (path # <<>> /\ GlobMatch(Tail(path), pattern))
         ELSE /\ path # <<>>
              /\ FnMatch(Head(path), Head(pattern))
              /\ GlobMatch(Tail(path), Tail(pattern))

\* C8: a file under the root, at any nesting depth, whose path matches a configured
\* exclusion glob is not among the files to scan and no task ever runs on it.
C8_ExcludedGlobNeverScanned ==
    Discovered =>
        \A f \in FilesUnder(root) :
            (\E i \in 1..Len(config.excluded_paths) :
                GlobMatch(Tree[f].path, config.excluded_paths[i]))
            => (f \notin Range(files_to_scan) /\ tasks[f].state = "none")

\* C9: with max_file_size parsed to N: when N > 0 every file larger than N is left out
\* and every file of size <= N that matches no exclusion glob is scanned; when N = 0
\* no file is left out because of its size; for a directory root and a single-file root.
C9_SizeCutoff ==
    Discovered =>
        \A f \in FilesUnder(root) :
            LET globbed == \E i \in 1..Len(excluded_paths) :
                               PathMatch(Tree[f].path, excluded_paths[i])
            IN  /\ (max_file_size > 0 /\ Tree[f].size > max_file_size)
                      => f \notin Range(files_to_scan)
                /\ ((max_file_size = 0 \/ Tree[f].size <= max_file_size) /\ ~globbed)
                      => f \in Range(files_to_scan)

\* C9 witness: under a positive limit a file of exactly the limit's size was scanned
\* and a larger file was left out.
C9_Witness ==
    /\ pc = "returned"
    /\ max_file_size > 0
    /\ \E f \in Range(files_to_scan) : Tree[f].size = max_file_size
    /\ \E f \in FilesUnder(root) :
          Tree[f].size > max_file_size /\ f \notin Range(files_to_scan)

\* _process_file run on its own, start to end: the list it returns, or that it raises
RECURSIVE RunFile(_, _, _)
RunFile(f, cands, acc) ==
    IF cands = <<>> THEN [raised |-> FALSE, result |-> acc]
    ELSE LET c == Head(cands)
             step == CandidateStep(c, config)
             r == Classify(classifierKind, c[1], ContextLine(c))
         IN  IF step = "skip" THEN RunFile(f, Tail(cands), acc)
             ELSE IF step # "classify" \/ r.raised THEN [raised |-> TRUE, result |-> <<>>]
             ELSE RunFile(f, Tail(cands), Append(acc, MakeFinding(f, c, r)))

RECURSIVE SumBags(_)
SumBags(bs) == IF bs = <<>> THEN EmptyBag ELSE Head(bs) (+) SumBags(Tail(bs))

\* the findings of the file tree under the configuration, file by file
ExpectedFindings ==
    LET fs == FindFilesToScan(root, config.excluded_paths,
                              ParseSize(config.max_file_size).value)
        built == BuildDetectors(config.detectors)
    IN  SumBags([i \in 1..Len(fs) |->
                    SeqToBag(RunFile(fs[i], FindCandidatesInFile(fs[i], built), <<>>).result)])

\* C10: the multiset of findings scan returns depends on the file tree, the
\* configuration and the classifier only: it is the same for every pool size and
\* every interleaving of the file tasks.
C10_FindingsScheduleIndependent ==
    pc = "returned" => SeqToBag(findings) = ExpectedFindings

\* C10 witness: with two workers scan returned findings of two files in an order that
\* is not the submission order.
C10_Witness ==
    /\ pc = "returned"
    /\ poolSize >= 2
    /\ \E i, j \in 1..Len(findings) : i < j /\ findings[i].file > findings[j].file

-----------------------------------------------------------------------------
(* Properties of classify_candidate *)

\* the reply is exactly what the wire contract describes
WellFormedReply(reply) ==
    /\ reply.kind = "http"
    /\ reply.status = 200
    /\ reply.body.t = "obj"
    /\ reply.body.response.t = "str"
    /\ reply.body.response.inner.t = "obj"
    /\ reply.body.response.inner.is_secret.t = "bool"
    /\ reply.body.response.inner.reason.t = "str"

DegradedVerdict(result) ==
    /\ result.t = "dict"
    /\ result.is_secret.t = "bool" /\ result.is_secret.b = FALSE
    /\ result.reason.t = "str" /\ result.reason.s # ""

\* C7: classify_candidate never raises, and for every reply that deviates from the
\* wire contract it returns is_secret = false with a non-empty diagnostic.
C7_NeverRaises ==
    /\ o_pc # "raised"
    /\ (o_pc = "returned" /\ ~WellFormedReply(o_reply)) => DegradedVerdict(o_result)

-----------------------------------------------------------------------------
(* Properties of the result collection and of the progress counter *)

IsPrefix(s, t) == Len(s) <= Len(t) /\ SubSeq(t, 1, Len(s)) = s

\* s occurs in t as one contiguous block
IsBlockOf(s, t) ==
    \E off \in 0..(Len(t) - Len(s)) : SubSeq(t, off + 1, off + Len(s)) = s

\* the tasks whose future was handed out and held a result, not an exception
CollectedOk == {f \in collected : tasks[f].state = "returned"}

TaskBag(f) == SeqToBag(tasks[f].file_findings)

RECURSIVE SumTaskBags(_)
SumTaskBags(fs) ==
    IF fs = {} THEN EmptyBag
    ELSE LET f == CHOOSE x \in fs : TRUE
         IN  TaskBag(f) (+) SumTaskBags(fs \ {f})

\* C11: the shared findings list is append-only (each step leaves its earlier value a
\* prefix), the result of each task sits in it as one block, and it holds exactly the
\* findings of the tasks collected without an exception; at the return of scan these
\* are all the tasks that completed without an exception.
C11_AppendOnlyExact ==
    /\ [][IsPrefix(findings, findings')]_vars
    /\ [](/\ SeqToBag(findings) = SumTaskBags(CollectedOk)
          /\ \A f \in CollectedOk : IsBlockOf(tasks[f].file_findings, findings)
          /\ pc = "returned" =>
                CollectedOk = {f \in Files : tasks[f].state = "returned"})

\* C11 witness: scan returned the findings of two tasks while a third task raised.
C11_Witness ==
    /\ pc = "returned"
    /\ \E f \in Files : tasks[f].state = "raised"
    /\ \E f, g \in CollectedOk :
          f # g /\ tasks[f].file_findings # <<>> /\ tasks[g].file_findings # <<>>

\* C12: with a progress object the counter never decreases, is advanced exactly once
\* per file whose future was handed out, whatever the outcome of the task, and equals
\* the number of discovered files (the task total) when scan returns.
C12_ProgressCounts ==
    /\ [][progress_completed' >= progress_completed]_vars
    /\ [](progress =>
            /\ progress_completed = Cardinality(collected)
            /\ Discovered => progress_total = Len(files_to_scan)
            /\ pc = "returned" => progress_completed = progress_total)

\* C12 witness: scan returned with a progress object after one task gave findings, one
\* gave none and one raised.
C12_Witness ==
    /\ pc = "returned"
    /\ progress
    /\ progress_completed >= 3
    /\ \E f \in Files : tasks[f].state = "raised"
    /\ \E f \in Files : tasks[f].state = "returned" /\ tasks[f].file_findings = <<>>
    /\ \E f \in Files : tasks[f].state = "returned" /\ tasks[f].file_findings # <<>>

\* C13: a file that cannot be opened or read gives no candidate (the classifier is
\* never called for it) and no finding, its task does not raise, and scan still
\* returns the findings of every other file whose task returned.
C13_UnreadableFileIgnored ==
    \A f \in Files :
        ~Tree[f].readable =>
            /\ tasks[f].calls = <<>>
            /\ tasks[f].file_findings = <<>>
            /\ tasks[f].state # "raised"
            /\ \A fd \in Range(findings) : fd.file # f
            /\ pc = "returned" =>
                  \A g \in Range(files_to_scan) :
                      tasks[g].state = "returned" =>
                          IsBlockOf(tasks[g].file_findings, findings)

\* C13 witness: scan returned after the task of an unreadable file that holds a
\* webhook URL, with a finding from another file.
C13_Witness ==
    /\ pc = "returned"
    /\ \E f \in Range(files_to_scan) :
          /\ ~Tree[f].readable
          /\ Tree[f].content.hooks # <<>>
          /\ \E i \in 1..Len(detectors) : detectors[i].name = "discord_webhook"
          /\ tasks[f].state = "returned"
    /\ findings # <<>>

-----------------------------------------------------------------------------
(* The detectors on text.  A text is a sequence of tokens: a token is a     *)
(* character or a run of letters that no pattern considered here splits     *)
(* ("http" and "s" are two tokens, so "https" is <<"http", "s">>).          *)

NewLine == "\n"

\* str.lower() on one token (re.IGNORECASE folds the text and the literals)
LowerTok(tok) ==
    CASE tok = "HTTP" -> "http" [] tok = "KEY" -> "key" [] tok = "A" -> "a"
      [] tok = "Q" -> "q" [] OTHER -> tok

Lower(s) == [i \in 1..Len(s) |-> LowerTok(s[i])]

\* \d
DigitToks == {"1", "2"}
\* letters: [a-zA-Z]
LetterToks == {"a", "b", "c", "d", "A", "Q", "q", "k", "s", "x", "key", "KEY", "http",
               "HTTP", "ftp", "ws", "postgres", "ql", "mysql", "redis", "mongodb", "user",
               "pass", "host", "discord", "example", "canary", "com", "api", "webhooks"}
\* \s
SpaceToks == {" ", NewLine}

\* str.splitlines(): the lines of a text, without their line ends
RECURSIVE SplitLines(_, _)
SplitLines(s, cur) ==
    IF s = <<>> THEN (IF cur = <<>> THEN <<>> ELSE <<cur>>)
    ELSE IF Head(s) = NewLine THEN <<cur>> \o SplitLines(Tail(s), <<>>)
    ELSE SplitLines(Tail(s), Append(cur, Head(s)))

(* Regular expressions of the re module, as syntax trees.                   *)
RLit(tok) == [op |-> "lit", tok |-> tok]
RSet(toks) == [op |-> "set", toks |-> toks]
RNotSet(toks) == [op |-> "notset", toks |-> toks]
RSeq(rs) == [op |-> "seq", rs |-> rs]
RAlt(rs) == [op |-> "alt", rs |-> rs]
ROpt(r) == [op |-> "opt", r |-> r]
\* r{n,}, greedy
RRep(r, n) == [op |-> "rep", r |-> r, n |-> n]
\* a capturing group; last: it is the group of the highest number in its pattern
RGroup(r, last) == [op |-> "group", r |-> r, last |-> last]
\* the literal text toks, token by token
RText(toks) == RSeq([i \in 1..Len(toks) |-> RLit(toks[i])])

\* a position of the matcher is [e, g]: e tokens are consumed, g tells whether the last
\* group took part in the match, and where; NoGroup: it took no part
NoGroup == [set |-> FALSE, from |-> 0, to |-> 0]

\* the backtracking matcher of sre: every way r matches s from position st, in the
\* order the matcher tries them (the first one that lets the rest match wins)
RECURSIVE M(_, _, _), MSeq(_, _, _), MSeqAll(_, _, _), MAlt(_, _, _), MRep(_, _, _, _),
          MRepAll(_, _, _, _)
M(r, s, st) ==
    CASE r.op = "lit" ->
            IF st.e < Len(s) /\ s[st.e + 1] = r.tok
            THEN <<[st EXCEPT !.e = st.e + 1]>> ELSE <<>>
      [] r.op = "set" ->
            IF st.e < Len(s) /\ s[st.e + 1] \in r.toks
            THEN <<[st EXCEPT !.e = st.e + 1]>> ELSE <<>>
      [] r.op = "notset" ->
            IF st.e < Len(s) /\ s[st.e + 1] \notin r.toks
            THEN <<[st EXCEPT !.e = st.e + 1]>> ELSE <<>>
      [] r.op = "seq" -> MSeq(r.rs, s, st)
      [] r.op = "alt" -> MAlt(r.rs, s, st)
      [] r.op = "opt" -> M(r.r, s, st) \o <<st>>
      [] r.op = "rep" -> MRep(r.r, r.n, s, st)
      [] r.op = "group" ->
            LET inner == M(r.r, s, st)
            IN  [i \in 1..Len(inner) |->
                    IF r.last
                    THEN [inner[i] EXCEPT !.g = [set |-> TRUE, from |-> st.e, to |-> inner[i].e]]
                    ELSE inner[i]]

MSeq(rs, s, st) ==
    IF rs = <<>> THEN <<st>> ELSE MSeqAll(Tail(rs), s, M(Head(rs), s, st))

MSeqAll(rs, s, sts) ==
    IF sts = <<>> THEN <<>> ELSE MSeq(rs, s, Head(sts)) \o MSeqAll(rs, s, Tail(sts))

MAlt(rs, s, st) ==
    IF rs = <<>> THEN <<>> ELSE M(Head(rs), s, st) \o MAlt(Tail(rs), s, st)

MRep(r, n, s, st) ==
    LET more == SelectSeq(M(r, s, st), LAMBDA x : x.e > st.e)
    IN  MRepAll(r, n - 1, s, more) \o (IF n <= 0 THEN <<st>> ELSE <<>>)

MRepAll(r, n, s, sts) ==
    IF sts = <<>> THEN <<>> ELSE MRep(r, n, s, Head(sts)) \o MRepAll(r, n, s, Tail(sts))

\* the match the search finds at or after pos, or none; an empty match at pos itself
\* is not allowed when the previous match was empty and ended there
RECURSIVE Search(_, _, _, _, _)
Search(r, s, i, pos, mustAdvance) ==
    IF i > Len(s) THEN [found |-> FALSE, from |-> 0, to |-> 0, g |-> NoGroup]
    ELSE LET ok == SelectSeq(M(r, s, [e |-> i, g |-> NoGroup]),
                             LAMBDA x : ~(mustAdvance /\ i = pos) \/ x.e > i)
         IN  IF ok # <<>>
             THEN [found |-> TRUE, from |-> i, to |-> ok[1].e, g |-> ok[1].g]
             ELSE Search(r, s, i + 1, pos, mustAdvance)

\* Pattern.finditer: the non-overlapping matches, left to right
RECURSIVE FindIterFrom(_, _, _, _)
FindIterFrom(r, s, pos, mustAdvance) ==
    LET m == Search(r, s, pos, pos, mustAdvance)
    IN  IF ~m.found THEN <<>>
        ELSE <<m>> \o FindIterFrom(r, s, m.to, m.to = m.from)

\* a compiled pattern: its tree, whether it has capturing groups, re.IGNORECASE
Compiled(r, hasGroups, ignoreCase) == [re |-> r, groups |-> hasGroups, ic |-> ignoreCase]

FindIter(pattern, s) ==
    FindIterFrom(pattern.re, IF pattern.ic THEN Lower(s) ELSE s, 0, FALSE)

\* match.group(0)
Group0(m, s) == SubSeq(s, m.from + 1, m.to)

\* the value of the last capturing group: None when the group took no part
LastGroup(m, s) ==
    IF m.g.set THEN [none |-> FALSE, val |-> SubSeq(s, m.g.from + 1, m.g.to)]
    ELSE [none |-> TRUE, val |-> <<>>]

-----------------------------------------------------------------------------
(* Shannon entropy.  Entropies and thresholds are compared exactly as       *)
(* rationals over a table of base-2 logarithms in millionths of a bit; a   *)
(* threshold is a number of tenths of a bit (45 is 4.5).                    *)

Log2Micro(k) ==
    CASE k = 1 -> 0 [] k = 2 -> 1000000 [] k = 3 -> 1584963 [] k = 4 -> 2000000
      [] k = 5 -> 2321928 [] k = 6 -> 2584963 [] k = 7 -> 2807355 [] k = 8 -> 3000000
      [] k = 9 -> 3169925 [] k = 10 -> 3321928 [] k = 11 -> 3459432 [] k = 12 -> 3584963
      [] k = 13 -> 3700440 [] k = 14 -> 3807355 [] k = 15 -> 3906891 [] k = 16 -> 4000000

RECURSIVE SumCountLog(_, _)
SumCountLog(data, xs) ==
    IF xs = {} THEN 0
    ELSE LET x == CHOOSE y \in xs : TRUE
             \* Counter(data)[x]
             count == Cardinality({i \in 1..Len(data) : data[i] = x})
         IN  count * Log2Micro(count) + SumCountLog(data, xs \ {x})

\* _shannon_entropy(data) as the fraction num / den of millionths of a bit:
\* -sum(c/n * log2(c/n)) = (n*log2(n) - sum(c*log2(c))) / n; 0.0 for empty data
ShannonEntropy(data) ==
    IF data = <<>> THEN [num |-> 0, den |-> 1]
    ELSE [num |-> Len(data) * Log2Micro(Len(data)) - SumCountLog(data, Range(data)),
          den |-> Len(data)]

\* entropy <= threshold: the comparison turned around
EntropyPasses_Reversed(entropy, threshold) == entropy.num <= threshold * 100000 * entropy.den

\* entropy >= self.threshold
EntropyPasses(entropy, threshold) == entropy.num >= threshold * 100000 * entropy.den

-----------------------------------------------------------------------------
(* base64.b64decode(candidate), validate=False: binascii.a2b_base64         *)


\* the 6-bit value of a character of the base64 alphabet
B64Val(ch) ==
    CASE ch = "A" -> 0 [] ch = "Q" -> 16 [] ch = "a" -> 26 [] ch = "b" -> 27
      [] ch = "c" -> 28 [] ch = "d" -> 29 [] ch = "k" -> 36 [] ch = "q" -> 42 [] ch = "s" -> 44
      [] ch = "x" -> 49 [] ch = "1" -> 53 [] ch = "2" -> 54 [] ch = "+" -> 62
      [] ch = "/" -> 63

B64Alphabet == {"A", "Q", "a", "b", "c", "d", "k", "q", "s", "x", "1", "2", "+", "/"}

\* the decoder's loop over the characters from position i: quad is the position inside
\* the current group of four, left the bits not yet written, pads the padding seen
\* since the last data character.  A complete padding ends the decoding at once; at
\* the end of the text an incomplete group is binascii.Error.
RECURSIVE B64Loop(_, _, _, _, _, _)
B64Loop(s, i, quad, left, pads, out) ==
    IF i > Len(s)
    THEN (IF quad = 0 THEN [error |-> FALSE, data |-> out] ELSE [error |-> TRUE, data |-> <<>>])
    ELSE LET ch == s[i]
         IN  IF ch = "="
             THEN IF quad >= 2 /\ quad + pads + 1 >= 4
                  THEN [error |-> FALSE, data |-> out]
                  ELSE B64Loop(s, i + 1, quad, left, IF quad >= 2 THEN pads + 1 ELSE pads, out)
             ELSE IF ch \notin B64Alphabet
             THEN B64Loop(s, i + 1, quad, left, pads, out)
             ELSE LET v == B64Val(ch)
                  IN  CASE quad = 0 -> B64Loop(s, i + 1, 1, v, 0, out)
                        [] quad = 1 ->
                            B64Loop(s, i + 1, 2, v % 16, 0, Append(out, left * 4 + v \div 16))
                        [] quad = 2 ->
                            B64Loop(s, i + 1, 3, v % 4, 0, Append(out, left * 16 + v \div 4))
                        [] quad = 3 ->
                            B64Loop(s, i + 1, 0, 0, 0, Append(out, left * 64 + v))

B64Decode(s) == B64Loop(s, 1, 0, 0, 0, <<>>)

-----------------------------------------------------------------------------
(* The six detectors.  detect is a generator: the operators give everything *)
(* it yields when it is consumed to its end.                                *)

\* the lines of a text with their numbers: enumerate(content.splitlines(), 1)
Lines(content) == SplitLines(content, <<>>)

\* re.compile(pattern_str) for the rules the model configures; re.error for the others
ReCompile(pattern_str) ==
    CASE pattern_str = "key=(\\w+)" ->
            [error |-> FALSE,
             pattern |-> Compiled(RSeq(<<RLit("key"), RLit("="),
                                         RGroup(RRep(RSet(LetterToks \cup DigitToks \cup {"_"}), 1),
                                                TRUE)>>), TRUE, FALSE)]
      [] pattern_str = "[ab]+" ->
            [error |-> FALSE,
             pattern |-> Compiled(RRep(RSet({"a", "b"}), 1), FALSE, FALSE)]
      [] pattern_str = "a(b)?" ->
            [error |-> FALSE,
             pattern |-> Compiled(RSeq(<<RLit("a"), ROpt(RGroup(RLit("b"), TRUE))>>),
                                  TRUE, FALSE)]
      [] pattern_str = "k=(\\d*)" ->
            [error |-> FALSE,
             pattern |-> Compiled(RSeq(<<RLit("k"), RLit("="),
                                         RGroup(RRep(RSet(DigitToks), 0), TRUE)>>),
                                  TRUE, FALSE)]
      [] OTHER -> [error |-> TRUE, pattern |-> Compiled(RSeq(<<>>), FALSE, FALSE)]

\* RegexDetector.__init__: the rules that compile, in their order
RECURSIVE RegexDetectorInit_Patterns(_)
RegexDetectorInit_Patterns(rules) ==
    IF rules = <<>> THEN <<>>
    ELSE LET c == ReCompile(Head(rules))
         IN  (IF c.error THEN <<>> ELSE <<c.pattern>>) \o RegexDetectorInit_Patterns(Tail(rules))

\* a constructor that gives up at the first rule that does not compile
RegexDetectorInit_StopAtInvalid(rules) ==
    LET bad == {i \in 1..Len(rules) : ReCompile(rules[i]).error}
        stop == IF bad = {} THEN Len(rules) + 1
                ELSE CHOOSE i \in bad : \A j \in bad : i <= j
    IN  [kind |-> "Regex",
         patterns |-> RegexDetectorInit_Patterns(SubSeq(rules, 1, stop - 1))]

RegexDetectorInit(rules) == [kind |-> "Regex", patterns |-> RegexDetectorInit_Patterns(rules)]

\* the whole match as the value even when the pattern has groups
RegexCandidate_WholeMatch(pattern, m, line) == [none |-> FALSE, val |-> Group0(m, line)]

\* candidate = match.groups()[-1] if match.groups() else match.group(0)
RegexCandidate(pattern, m, line) ==
    IF pattern.groups THEN LastGroup(m, line) ELSE [none |-> FALSE, val |-> Group0(m, line)]

\* if candidate: neither None nor the empty string
Truthy(candidate) == ~candidate.none /\ candidate.val # <<>>

\* RegexDetector.detect
RegexDetectorDetect(self, content) ==
    LET lines == Lines(content)
    IN  Concat([line_num \in 1..Len(lines) |->
            Concat([p \in 1..Len(self.patterns) |->
                LET ms == FindIter(self.patterns[p], lines[line_num])
                IN  Concat([k \in 1..Len(ms) |->
                        LET candidate == RegexCandidate(self.patterns[p], ms[k], lines[line_num])
                        IN  IF Truthy(candidate)
                            THEN << <<candidate.val, line_num, Strip(lines[line_num]),
                                      "Regex">> >>
                            ELSE <<>>])])])

\* KeywordDetector.__init__: one case-insensitive alternation of the escaped keywords,
\* or no pattern (None, here the empty sequence) for an empty list
KeywordDetectorInit(keywords) ==
    [kind |-> "Keyword",
     pattern |-> IF keywords # <<>>
                 THEN <<Compiled(RGroup(RAlt([i \in 1..Len(keywords) |->
                                                 RText(Lower(keywords[i]))]), TRUE),
                                 TRUE, TRUE)>>
                 ELSE <<>>]

\* KeywordDetector.detect
KeywordDetectorDetect(self, content) ==
    IF self.pattern = <<>> THEN <<>>
    ELSE LET lines == Lines(content)
         IN  Concat([line_num \in 1..Len(lines) |->
                 LET ms == FindIter(self.pattern[1], lines[line_num])
                 IN  [k \in 1..Len(ms) |->
                        <<Group0(ms[k], lines[line_num]), line_num, Strip(lines[line_num]),
                          "Keyword">>]])

QuoteToks == {"'", "\""}
\* the back quote character, as a token
BackTick == "backquote"

\* EntropyDetector.__init__: ['\"]?([a-zA-Z0-9-_.+/=]{min_length,})['\"]?
EntropyDetectorInit(threshold, min_length) ==
    [kind |-> "Entropy",
     threshold |-> threshold,
     word_regex |->
        Compiled(RSeq(<<ROpt(RSet(QuoteToks)),
                        RGroup(RRep(RSet(LetterToks \cup DigitToks \cup
                                         {"-", "_", ".", "+", "/", "="}), min_length), TRUE),
                        ROpt(RSet(QuoteToks))>>), TRUE, FALSE)]

\* EntropyDetector.detect
EntropyDetectorDetect(self, content) ==
    LET lines == Lines(content)
    IN  Concat([line_num \in 1..Len(lines) |->
            LET ms == FindIter(self.word_regex, lines[line_num])
            IN  Concat([k \in 1..Len(ms) |->
                    LET candidate == LastGroup(ms[k], lines[line_num])
                    IN  IF Truthy(candidate)
                           /\ EntropyPasses(ShannonEntropy(candidate.val), self.threshold)
                        THEN << <<candidate.val, line_num, Strip(lines[line_num]), "Entropy">> >>
                        ELSE <<>>])])

\* Base64Detector.__init__: ['\"]([A-Za-z0-9+/=]{min_length,})['\"]; the texts given to
\* this detector hold one-character tokens only
Base64DetectorInit(min_length, entropy_threshold) ==
    [kind |-> "Base64",
     min_length |-> min_length,
     entropy_threshold |-> entropy_threshold,
     b64_regex |->
        Compiled(RSeq(<<RSet(QuoteToks),
                        RGroup(RRep(RSet(B64Alphabet \cup {"="}), min_length), TRUE),
                        RSet(QuoteToks)>>), TRUE, FALSE)]

\* the decode error leaves the generator: nothing more is examined
Base64OnDecodeError_Abort == "abort"

\* except (base64.binascii.Error, ValueError): continue
Base64OnDecodeError == "continue"

\* the body of the loops of Base64Detector.detect for one match
Base64Step(candidate, entropy_threshold) ==
    IF Len(candidate) % 4 # 0 THEN "continue"
    ELSE LET decoded_data == B64Decode(candidate)
         IN  IF decoded_data.error THEN Base64OnDecodeError
             ELSE IF EntropyPasses(ShannonEntropy(decoded_data.data), entropy_threshold)
             THEN "yield"
             ELSE "continue"

\* the matches of b64_regex in the order the two loops visit them
Base64Matches(self, content) ==
    LET lines == Lines(content)
    IN  Concat([line_num \in 1..Len(lines) |->
            LET ms == FindIter(self.b64_regex, lines[line_num])
            IN  [k \in 1..Len(ms) |->
                    [candidate |-> LastGroup(ms[k], lines[line_num]).val,
                     line_num |-> line_num, line |-> lines[line_num]]]])

RECURSIVE Base64DetectorDetect_Loop(_, _, _)
Base64DetectorDetect_Loop(self, items, yielded) ==
    IF items = <<>> THEN yielded
    ELSE LET it == Head(items)
             step == Base64Step(it.candidate, self.entropy_threshold)
         IN  IF step = "abort" THEN yielded
             ELSE Base64DetectorDetect_Loop(self, Tail(items),
                    IF step = "yield"
                    THEN Append(yielded, <<it.candidate, it.line_num, Strip(it.line), "Base64">>)
                    ELSE yielded)

\* Base64Detector.detect
Base64DetectorDetect(self, content) ==
    Base64DetectorDetect_Loop(self, Base64Matches(self, content), <<>>)

\* the default protocols of UrlDetector
DefaultProtocols ==
    << <<"http">>, <<"http", "s">>, <<"ftp">>, <<"s", "ftp">>, <<"ws">>, <<"ws", "s">>,
       <<"postgres">>, <<"postgres", "ql">>, <<"mysql">>, <<"redis">>, <<"mongodb">> >>

\* UrlDetector.__init__: protocols or [...]; None and the empty list are both falsy
UrlDetectorInit(protocols) ==
    [kind |-> "Url",
     protocols |-> IF ~protocols.none /\ protocols.list # <<>> THEN protocols.list
                   ELSE DefaultProtocols]

\* the pattern UrlDetector.detect builds at every call, re.VERBOSE | re.IGNORECASE:
\* (?:protocols)://(?:[^:@/\s]+:[^:@/\s]+@) and then one or more characters that are
\* neither whitespace nor a quote, a back quote, a comma or a semicolon
UrlPattern(protocols) ==
    LET userinfo == RRep(RNotSet({":", "@", "/"} \cup SpaceToks), 1)
    IN  Compiled(RSeq(<<RAlt([i \in 1..Len(protocols) |-> RText(Lower(protocols[i]))]),
                        RLit(":"), RLit("/"), RLit("/"),
                        userinfo, RLit(":"), userinfo, RLit("@"),
                        RRep(RNotSet(SpaceToks \cup {"'", "\"", BackTick, ",", ";"}), 1)>>),
                 FALSE, TRUE)

\* UrlDetector.detect
UrlDetectorDetect(self, content) ==
    LET regex == UrlPattern(self.protocols)
        lines == Lines(content)
    IN  Concat([line_num \in 1..Len(lines) |->
            LET ms == FindIter(regex, lines[line_num])
            IN  [k \in 1..Len(ms) |->
                    <<Group0(ms[k], lines[line_num]), line_num, "UrlDetector",
                      "URL with Credentials">>]])

\* DiscordWebhookDetector.__init__:
\* https://(canary\.)?discord\.com/api/webhooks/\d+/[a-zA-Z0-9_-]+, re.IGNORECASE
DiscordWebhookDetectorInit ==
    [kind |-> "DiscordWebhook",
     pattern |->
        Compiled(RSeq(<<RText(<<"http", "s", ":", "/", "/">>),
                        ROpt(RGroup(RText(<<"canary", ".">>), TRUE)),
                        RText(<<"discord", ".", "com", "/", "api", "/", "webhooks", "/">>),
                        RRep(RSet(DigitToks), 1), RLit("/"),
                        RRep(RSet(LetterToks \cup DigitToks \cup {"_", "-"}), 1)>>),
                 TRUE, TRUE)]

\* DiscordWebhookDetector.detect: over the whole content, not line by line
DiscordWebhookDetectorDetect(self, content) ==
    LET ms == FindIter(self.pattern, content)
    IN  [k \in 1..Len(ms) |->
            <<Group0(ms[k], content), 8, "discord_webhook", "DiscordWebhookDetector",
              "Discord Webhook URL">>]

\* detector.detect(content), by the class of the instance
DetectText(self, content) ==
    CASE self.kind = "Regex" -> RegexDetectorDetect(self, content)
      [] self.kind = "Keyword" -> KeywordDetectorDetect(self, content)
      [] self.kind = "Entropy" -> EntropyDetectorDetect(self, content)
      [] self.kind = "Base64" -> Base64DetectorDetect(self, content)
      [] self.kind = "Url" -> UrlDetectorDetect(self, content)
      [] self.kind = "DiscordWebhook" -> DiscordWebhookDetectorDetect(self, content)

-----------------------------------------------------------------------------
(* The inputs the detectors are tried on *)

\* at most MaxCalls calls of detect are made on one instance
MaxCalls == 2

\* the rules lists given to RegexDetector: "(" does not compile
RegexRuleChoices ==
    {<<>>, <<"key=(\\w+)">>, <<"[ab]+", "a(b)?">>, <<"(", "k=(\\d*)">>,
     <<"a(b)?", "(", "[ab]+">>}

\* the keywords lists given to KeywordDetector
KeywordChoices ==
    {<<>>, << <<"key">> >>, << <<"KEY">>, <<"pass">> >>, << <<"x">>, <<"x", "=">> >>}

\* the thresholds (tenths of a bit) given to EntropyDetector
EntropyThresholdChoices == {0, 10, 15, 20}

\* the argument protocols of UrlDetector: None, or a list
ProtocolsArg(none, list) == [none |-> none, list |-> list]

ProtocolChoices ==
    {ProtocolsArg(TRUE, <<>>), ProtocolsArg(FALSE, <<>>),
     ProtocolsArg(FALSE, << <<"ftp">> >>), ProtocolsArg(FALSE, << <<"http">> >>),
     ProtocolsArg(FALSE, << <<"mysql">> >>),
     ProtocolsArg(FALSE, << <<"http">>, <<"http", "s">> >>)}

\* what may precede a URL in the texts of DiscordWebhookDetector
DiscordPrefixes == {<<>>, <<"x", " ">>}

\* the texts a detector of a kind is tried on: lines and words, alone and in pairs; the
\* texts of the entropy and Base64 detectors hold one-character tokens only
Texts(kind) ==
    LET OneOrTwoLines(lines) ==
            lines \cup {a \o <<NewLine>> \o b : a \in lines, b \in lines}
        Pairs(firsts, seconds) ==
            {a \o <<sep>> \o b : a \in firsts, b \in seconds, sep \in {" ", NewLine}}
        Quoted(words, closing) == {<<"'">> \o w \o <<closing>> : w \in words}
        EntropyWords ==
            {<<"a", "a", "a", "a">>,
             <<"a", "b", "a", "b">>,
             <<"a", "b", "c", "d">>,
             <<"a", "b">>,
             <<"a", "-", "_", ".">>,
             <<"a", "b", "c">>,
             <<"a", "a", "b", "b", "c", "c", "d", "d">>,
             <<"a">>}
        Base64Words ==
            {<<"A", "A", "A", "A">>,
             <<"A", "A", "=", "=">>,
             <<"A", "=", "=", "=">>,
             <<"A", "A", "A">>,
             <<"A", "A", "=", "A">>,
             <<"Q", "a", "+", "/">>,
             <<"s", "x", "1", "2">>,
             <<"A", "A", "A", "A", "A", "A", "=", "=">>,
             <<"=", "=", "=", "=">>,
             <<"a", "b", "c", "d", "Q", "k", "1", "2">>,
             <<"A", "A", "A", "=", "A", "A", "A", "A">>}
    IN  CASE kind = "Regex" ->
                OneOrTwoLines({<<"key", "=", "a", "b">>,
                               <<"a", "a", "b", " ", "a">>,
                               <<"k", "=", "1", " ", "k", "=">>,
                               <<" ", "a", "b", "a", " ">>,
                               <<>>,
                               <<"x">>})
          [] kind = "Keyword" ->
                OneOrTwoLines({<<"key", "=", "a", "b">>,
                               <<"KEY", " ", "pass", "key">>,
                               <<"a", "b", "a">>,
                               <<" ", "x", "=", "pass">>,
                               <<>>})
          [] kind = "Entropy" ->
                EntropyWords \cup Quoted(EntropyWords, "'")
                    \cup Pairs(EntropyWords, EntropyWords \cup Quoted(EntropyWords, "'"))
          [] kind = "Base64" ->
                Base64Words \cup Quoted(Base64Words, "\"")
                    \cup Pairs(Quoted(Base64Words, "\""), Quoted(Base64Words, "\""))
          [] kind = "Url" ->
                {scheme \o <<":", "/", "/">> \o userinfo \o rest :
                    scheme \in {<<"http">>, <<"http", "s">>, <<"ftp">>, <<"s", "ftp">>,
                                <<"HTTP">>, <<"mysql">>, <<"x", "http">>, <<"redis">>},
                    userinfo \in {<<>>, <<"user", ":", "pass", "@">>, <<"user", "@">>,
                                  <<":", "pass", "@">>, <<"user", ":", "@">>},
                    rest \in {<<"host">>, <<"host", "/", "a">>, <<"host", ",", "x">>,
                              <<"host", NewLine, "x", " ", "ftp", ":", "/", "/", "user", ":",
                                "pass", "@", "host", BackTick>>}}
          [] kind = "DiscordWebhook" ->
                {prefix \o scheme \o <<":", "/", "/">> \o host
                    \o <<"/", "api", "/", "webhooks", "/">> \o id \o <<"/">> \o token :
                    prefix \in DiscordPrefixes,
                    scheme \in {<<"http", "s">>, <<"HTTP", "s">>, <<"http">>},
                    host \in {<<"discord", ".", "com">>,
                              <<"canary", ".", "discord", ".", "com">>,
                              <<"example", ".", "com">>},
                    id \in {<<"1">>, <<"1", "2">>, <<"a">>, <<>>},
                    token \in {<<"a">>, <<"a", "_", "b", "-", "1">>, <<"a", ".", "b">>, <<>>,
                               <<"a", NewLine, "http", "s", ":", "/", "/", "discord", ".",
                                 "com", "/", "api", "/", "webhooks", "/", "2", "/", "Q">>}}

-----------------------------------------------------------------------------
(* The detectors as a state machine: an instance is built, then detect is   *)
(* called on it, several times on the same text.                            *)

InitDetect ==
    /\ ScanIdle
    /\ OllamaIdle
    /\ CliIdle
    /\ d_pc = "new"
    /\ d_args = <<>>
    /\ d_self = <<>>
    /\ d_content = <<>>
    /\ d_outs = <<>>

\* the instance comes out of its constructor
Built(args, self) ==
    /\ d_pc = "new"
    /\ d_pc' = "built"
    /\ d_args' = args
    /\ d_self' = self
    /\ UNCHANGED <<d_content, d_outs, scanVars, ollamaVars, cliVars>>

NewRegexDetector == \E rules \in RegexRuleChoices : Built(rules, RegexDetectorInit(rules))

NewKeywordDetector ==
    \E keywords \in KeywordChoices : Built(keywords, KeywordDetectorInit(keywords))

NewEntropyDetector ==
    \E threshold \in EntropyThresholdChoices, min_length \in {2, 4} :
        Built(<<threshold, min_length>>, EntropyDetectorInit(threshold, min_length))

NewBase64Detector ==
    \E min_length \in {4, 8}, entropy_threshold \in {0, 10} :
        Built(<<min_length, entropy_threshold>>,
              Base64DetectorInit(min_length, entropy_threshold))

NewUrlDetector == \E protocols \in ProtocolChoices : Built(protocols, UrlDetectorInit(protocols))

NewDiscordWebhookDetector == Built(<<>>, DiscordWebhookDetectorInit)

\* detect empties the pattern list of the instance it ran on
SelfAfterDetect_DropsPatterns(self) ==
    IF self.kind = "Regex" THEN [self EXCEPT !.patterns = <<>>] ELSE self

\* the instance after a call of detect: no detect method assigns to self
SelfAfterDetect(self) == self

\* list(detector.detect(content)): the first call chooses the text, the later calls
\* are given the same text
CallDetect ==
    /\ d_pc = "built"
    /\ Len(d_outs) < MaxCalls
    /\ \E content \in Texts(d_self.kind) :
          /\ d_outs # <<>> => content = d_content
          /\ d_content' = content
          /\ d_outs' = Append(d_outs, DetectText(d_self, content))
    /\ d_self' = SelfAfterDetect(d_self)
    /\ UNCHANGED <<d_pc, d_args, scanVars, ollamaVars, cliVars>>

NextDetect ==
    \/ NewRegexDetector
    \/ NewKeywordDetector
    \/ NewEntropyDetector
    \/ NewBase64Detector
    \/ NewUrlDetector
    \/ NewDiscordWebhookDetector
    \/ CallDetect

SpecDetect == InitDetect /\ [][NextDetect]_vars

-----------------------------------------------------------------------------
(* Properties of the detectors *)

\* a call of detect was made on an instance of the class
Called(kind) == d_pc = "built" /\ d_self.kind = kind /\ d_outs # <<>>

WordToks == LetterToks \cup DigitToks

\* C14: every candidate a detector yields has the one normalized shape that
\* _process_file unpacks: five fields, the second a confidence between 0 and 1.
C14_OneCandidateShape ==
    d_pc = "built" =>
        \A call \in 1..Len(d_outs) : \A i \in 1..Len(d_outs[call]) :
            /\ Len(d_outs[call][i]) = 5
            /\ d_outs[call][i][2] \in 0..10

\* the webhook URLs of the form https://[canary.]discord.com/api/webhooks/<digits>/<token>
WebhookUrls ==
    {<<"http", "s", ":", "/", "/">> \o canary
        \o <<"discord", ".", "com", "/", "api", "/", "webhooks", "/">> \o id \o <<"/">> \o token :
        canary \in {<<>>, <<"canary", ".">>},
        id \in {<<"1">>, <<"1", "2">>},
        token \in {<<"a">>, <<"a", "_", "b", "-", "1">>}}

\* the same path on another host
OtherHostUrls ==
    {<<"http", "s", ":", "/", "/", "example", ".", "com", "/", "api", "/", "webhooks", "/">>
        \o id \o <<"/">> \o token :
        id \in {<<"1">>, <<"1", "2">>},
        token \in {<<"a">>, <<"a", "_", "b", "-", "1">>}}

\* C15: on a content holding one webhook URL DiscordWebhookDetector.detect yields one
\* candidate: element 0 the URL, element 2 'DiscordWebhookDetector', element 3
\* 'Discord Webhook URL'; on the same path on another host it yields nothing.
C15_DiscordCandidate ==
    Called("DiscordWebhook") =>
        \A call \in 1..Len(d_outs) :
            /\ \A prefix \in DiscordPrefixes, url \in WebhookUrls :
                  d_content = prefix \o url =>
                      /\ Len(d_outs[call]) = 1
                      /\ d_outs[call][1][1] = url
                      /\ d_outs[call][1][3] = "DiscordWebhookDetector"
                      /\ d_outs[call][1][4] = "Discord Webhook URL"
            /\ \A prefix \in DiscordPrefixes, url \in OtherHostUrls :
                  d_content = prefix \o url => d_outs[call] = <<>>

\* the tokens of a URL before its first ":": the scheme
RECURSIVE SchemeOf(_)
SchemeOf(url) ==
    IF url = <<>> \/ Head(url) = ":" THEN <<>> ELSE <<Head(url)>> \o SchemeOf(Tail(url))

\* value is written in line at a place where no letter or digit precedes it, so that
\* its scheme is the whole scheme of the URL as written
WrittenAsUrl(value, line) ==
    \E p \in 0..(Len(line) - Len(value)) :
        /\ SubSeq(line, p + 1, p + Len(value)) = value
        /\ p = 0 \/ line[p] \notin WordToks

\* after scheme:// the URL carries user:password@ with both parts non-empty
HasCredentials(url) ==
    LET k == Len(SchemeOf(url))
        bad == {":", "@", "/"} \cup SpaceToks
    IN  /\ Len(url) >= k + 3
        /\ SubSeq(url, k + 1, k + 3) = <<":", "/", "/">>
        /\ \E i, j \in (k + 4)..Len(url) :
              /\ i < j
              /\ url[i] = ":" /\ url[j] = "@"
              /\ i > k + 4 /\ j > i + 1
              /\ \A x \in ((k + 4)..(i - 1)) \cup ((i + 1)..(j - 1)) : url[x] \notin bad

\* the protocols the detector was configured with: the defaults when none were given
ConfiguredProtocols(protocols) == IF protocols.none THEN DefaultProtocols ELSE protocols.list

\* C16: UrlDetector.detect reports only URLs written in the content whose scheme is one
\* of the protocols given to the constructor (none when the list is empty) and that
\* carry a non-empty user:password@ segment.
C16_UrlOnlyConfiguredScheme ==
    Called("Url") =>
        \A call \in 1..Len(d_outs) : \A i \in 1..Len(d_outs[call]) :
            LET c == d_outs[call][i]
            IN  /\ c[2] \in 1..Len(Lines(d_content))
                /\ WrittenAsUrl(c[1], Lines(d_content)[c[2]])
                /\ Lower(SchemeOf(c[1])) \in
                      {Lower(p) : p \in Range(ConfiguredProtocols(d_args))}
                /\ HasCredentials(c[1])

\* the rules of the constructor's list that compile
ValidRules(rules) == SelectSeq(rules, LAMBDA r : ~ReCompile(r).error)

\* every match of every valid rule on every line, in line order, then rule order, then
\* match order, with the value the claim gives it
RegexMatches(rules, content) ==
    LET lines == Lines(content)
        valid == ValidRules(rules)
    IN  Concat([n \in 1..Len(lines) |->
            Concat([p \in 1..Len(valid) |->
                LET pattern == ReCompile(valid[p]).pattern
                    ms == FindIter(pattern, lines[n])
                IN  [k \in 1..Len(ms) |->
                        [line_num |-> n,
                         value |-> IF pattern.groups THEN LastGroup(ms[k], lines[n])
                                   ELSE [none |-> FALSE, val |-> Group0(ms[k], lines[n])]]]])])

\* C17 as stated: RegexDetector.detect yields exactly one candidate for each match of
\* each valid pattern on each line.
C17_OneCandidatePerMatch ==
    Called("Regex") =>
        \A call \in 1..Len(d_outs) :
            Len(d_outs[call]) = Len(RegexMatches(d_args, d_content))

\* C17 amended: RegexDetector.detect yields exactly one candidate for each match whose
\* value is non-empty, in line order, then pattern order, then match order, and none
\* for the other matches; the value is the last capturing group when the pattern has
\* capturing groups and the whole match otherwise.
C17_OneCandidatePerNonEmptyMatch ==
    Called("Regex") =>
        \A call \in 1..Len(d_outs) :
            LET kept == SelectSeq(RegexMatches(d_args, d_content),
                                  LAMBDA m : ~m.value.none /\ m.value.val # <<>>)
            IN  /\ Len(d_outs[call]) = Len(kept)
                /\ \A i \in 1..Len(kept) :
                      /\ d_outs[call][i][1] = kept[i].value.val
                      /\ d_outs[call][i][2] = kept[i].line_num

\* C17 witness: with an invalid rule in the list, a call yielded candidates, one of them
\* the capturing group b of a(b)?, and skipped a match whose group took no part.
C17_Witness ==
    /\ Called("Regex")
    /\ "(" \in Range(d_args)
    /\ Len(d_outs[1]) < Len(RegexMatches(d_args, d_content))
    /\ \E i \in 1..Len(d_outs[1]) : d_outs[1][i][1] = <<"b">>

\* C18: Base64Detector.detect yields no token whose length is not a multiple of 4 and
\* none that fails to decode, and a token that fails does not keep the later tokens of
\* the text from being examined: every token that has a length multiple of 4, decodes
\* and reaches the entropy threshold is yielded.
C18_Base64OnlyDecodable ==
    Called("Base64") =>
        \A call \in 1..Len(d_outs) :
            /\ \A i \in 1..Len(d_outs[call]) :
                  /\ Len(d_outs[call][i][1]) % 4 = 0
                  /\ ~B64Decode(d_outs[call][i][1]).error
            /\ \A it \in Range(Base64Matches(d_self, d_content)) :
                  (/\ Len(it.candidate) % 4 = 0
                   /\ ~B64Decode(it.candidate).error
                   /\ ShannonEntropy(B64Decode(it.candidate).data).num
                         >= d_args[2] * 100000 * ShannonEntropy(B64Decode(it.candidate).data).den)
                  => \E i \in 1..Len(d_outs[call]) :
                        /\ d_outs[call][i][1] = it.candidate
                        /\ d_outs[call][i][2] = it.line_num

\* C18 witness: a token that fails to decode comes first and a later token is yielded.
C18_Witness ==
    /\ Called("Base64")
    /\ LET items == Base64Matches(d_self, d_content)
       IN  /\ Len(items) = 2
           /\ Len(items[1].candidate) % 4 = 0
           /\ B64Decode(items[1].candidate).error
           /\ Len(d_outs[1]) = 1
           /\ d_outs[1][1][1] = items[2].candidate

\* C19: EntropyDetector.detect yields no token shorter than min_length, and what it
\* yields with its threshold is yielded with every lower threshold too, for the same
\* text and min_length.
C19_EntropyMinLengthMonotone ==
    Called("Entropy") =>
        \A call \in 1..Len(d_outs) :
            /\ \A i \in 1..Len(d_outs[call]) : Len(d_outs[call][i][1]) >= d_args[2]
            /\ \A t1 \in EntropyThresholdChoices :
                  t1 <= d_args[1] =>
                      Range(d_outs[call]) \subseteq
                          Range(EntropyDetectorDetect(EntropyDetectorInit(t1, d_args[2]),
                                                      d_content))

\* C19 witness: the call yielded a token and a lower threshold yields one more.
C19_Witness ==
    /\ Called("Entropy")
    /\ d_outs[1] # <<>>
    /\ \E t1 \in EntropyThresholdChoices :
          /\ t1 < d_args[1]
          /\ Len(EntropyDetectorDetect(EntropyDetectorInit(t1, d_args[2]), d_content))
                > Len(d_outs[1])

-----------------------------------------------------------------------------
(* The command line: whisper.cli and whisper.config.settings.  One process *)
(* makes several invocations (as the CliRunner of the tests does), so the  *)
(* module globals DEBUG and DEFAULT_CONFIG live across them.               *)

\* at most this many invocations are made in one process
MaxInvocations == 2

\* deep_merge(source, destination): the content of destination afterwards.  The
\* sources explored hold a dict only where the destination holds a dict or nothing.
RECURSIVE DeepMerge(_, _)
DeepMerge(source, destination) ==
    [key \in DOMAIN source \cup DOMAIN destination |->
        IF key \notin DOMAIN source THEN destination[key]
        ELSE IF source[key].t = "dict"
        THEN [t |-> "dict",
              d |-> DeepMerge(source[key].d,
                              IF key \in DOMAIN destination THEN destination[key].d
                              ELSE <<>>)]
        ELSE source[key]]

\* DEFAULT_CONFIG.copy(): the keys whose value object the new dictionary shares
\* with the original; dict.copy is shallow, so every one
DictCopyShared(original) == DOMAIN original

\* load_config() while DEFAULT_CONFIG has the content defaults.  config is the
\* content of the dictionary returned, shared the top-level keys under which it
\* holds the very object DEFAULT_CONFIG holds, defaults the content of
\* DEFAULT_CONFIG afterwards: deep_merge writes into the shared objects.
LoadConfig(user, defaults) ==
    IF ~user.found \/ DOMAIN user.content = {}
    THEN [config |-> defaults, shared |-> DictCopyShared(defaults), defaults |-> defaults]
    ELSE LET merged == DeepMerge(user.content, defaults)
             replaced == {key \in DOMAIN user.content : user.content[key].t # "dict"}
             shared == DictCopyShared(defaults) \ replaced
         IN  [config |-> merged, shared |-> shared,
              defaults |-> [key \in DOMAIN defaults |->
                               IF key \in shared THEN merged[key] ELSE defaults[key]]]

\* validate_config(config): AIConfig(**config.get('ai', {})) accepts the block
ValidateConfig(cfg) ==
    LET ai == IF "ai" \in DOMAIN cfg THEN cfg["ai"] ELSE [t |-> "dict", d |-> <<>>]
    IN  /\ ai.t = "dict"
        /\ "model" \in DOMAIN ai.d
        /\ ai.d["model"].t = "str"
        /\ "confidence_threshold" \in DOMAIN ai.d =>
              /\ ai.d["confidence_threshold"].t = "num"
              /\ ai.d["confidence_threshold"].n \in 0..10

\* config[key][inner] = value, by an assignment or an extend: the object under key
\* is changed, and DEFAULT_CONFIG with it when it holds the same object
StoreUnder(st, key, inner, value) ==
    LET old == st.config[key].d
        obj == [t |-> "dict",
                d |-> [k \in DOMAIN old \cup {inner} |-> IF k = inner THEN value ELSE old[k]]]
    IN  [st EXCEPT !.config[key] = obj,
                   !.defaults[key] = IF key \in st.shared THEN obj ELSE @]

\* raise typer.Exit(code=code), as what leaves the body of a command; the other
\* kinds are "return" and "exception" (any exception other than typer.Exit)
Exit(code) == [kind |-> "exit", code |-> code]

\* the invocations explored: the options of the command line, the user's
\* configuration file, and what FileScanner, Ollama and "ollama pull" will do
Invocations ==
    LET Dict(d) == [t |-> "dict", d |-> d]
        Num(n) == [t |-> "num", n |-> n]
        users ==
            { [found |-> FALSE, content |-> <<>>],
              [found |-> TRUE,
               content |-> [ai |-> Dict([model |-> [t |-> "str", s |-> "custom-model:latest"]]),
                            rules |-> Dict([excluded_paths |->
                                             [t |-> "list", l |-> <<"/test/only/this/path">>]])]],
              [found |-> TRUE, content |-> [ai |-> Dict([confidence_threshold |-> Num(5)])]],
              [found |-> TRUE, content |-> [ai |-> Dict([confidence_threshold |-> Num(20)])]],
              [found |-> TRUE,
               content |-> [ai |-> Dict([fallback |->
                                           Dict([enabled |-> [t |-> "bool", b |-> TRUE]])])]],
              [found |-> TRUE, content |-> [rules |-> [t |-> "null"]]] }
    IN  [command : {"scan"}, debug : BOOLEAN, user : users,
         confidence_threshold : {-1, 3},        \* -1: the option is not given (None)
         exclude : {<<>>, <<"build/**">>},
         fail_on_finding : BOOLEAN,
         scanner : {"raises", "empty", "findings"},
         ollama_up : {TRUE}, pull : {"ok"}]
        \cup
        [command : {"setup"}, debug : BOOLEAN, user : users,
         confidence_threshold : {-1}, exclude : {<<>>}, fail_on_finding : {FALSE},
         scanner : {"empty"},
         ollama_up : BOOLEAN, pull : {"ok", "failed"}]

InitCli ==
    /\ ScanIdle
    /\ OllamaIdle
    /\ DetectIdle
    /\ c_pc = "ready"
    /\ DEBUG = FALSE
    /\ c_args = <<>>
    /\ default_config = DEFAULT_CONFIG
    /\ c_config = <<>>
    /\ c_outcome = [kind |-> "none"]
    /\ c_exit = -1
    /\ c_runs = 0

\* the callback main() of an invocation: global DEBUG; DEBUG = debug
Main ==
    /\ c_pc \in {"ready", "exited"}
    /\ c_runs < MaxInvocations
    /\ \E args \in Invocations :
          /\ c_args' = args
          /\ DEBUG' = args.debug
    /\ c_pc' = "body"
    /\ c_runs' = c_runs + 1
    /\ c_outcome' = [kind |-> "none"]
    /\ c_exit' = -1
    /\ UNCHANGED <<default_config, c_config, scanVars, ollamaVars, detectVars>>

\* the body of scan(), the with block of lines 289-421
ScanCommand ==
    /\ c_pc = "body"
    /\ c_args.command = "scan"
    /\ LET Returns == [kind |-> "return", code |-> 0]
           Raises == [kind |-> "exception", code |-> 0]
           loaded == LoadConfig(c_args.user, default_config)
           \* config["ai"]["confidence_threshold"] = confidence_threshold
           st1 == IF c_args.confidence_threshold # -1
                  THEN StoreUnder(loaded, "ai", "confidence_threshold",
                                  [t |-> "num", n |-> c_args.confidence_threshold])
                  ELSE loaded
           rules == st1.config["rules"]
           \* config["rules"]["excluded_paths"].extend(exclude)
           st2 == IF c_args.exclude # <<>> /\ rules.t = "dict"
                  THEN StoreUnder(st1, "rules", "excluded_paths",
                                  [t |-> "list",
                                   l |-> rules.d["excluded_paths"].l \o c_args.exclude])
                  ELSE st1
       IN  IF ~ValidateConfig(loaded.config)
           THEN /\ c_outcome' = Exit(2)
                /\ c_config' = loaded.config
                /\ default_config' = loaded.defaults
           ELSE IF c_args.exclude # <<>> /\ rules.t # "dict"
           THEN /\ c_outcome' = Raises             \* TypeError: None is not subscriptable
                /\ c_config' = st1.config
                /\ default_config' = st1.defaults
           ELSE /\ c_config' = st2.config
                /\ default_config' = st2.defaults
                /\ c_outcome' =
                      CASE c_args.scanner = "raises" -> Raises
                        [] c_args.scanner = "empty" -> Exit(0)
                        [] c_args.scanner = "findings" ->
                              IF c_args.fail_on_finding THEN Exit(1) ELSE Returns
    /\ c_pc' = "handler"
    /\ UNCHANGED <<DEBUG, c_args, c_exit, c_runs, scanVars, ollamaVars, detectVars>>

\* the body of setup(), the with block of lines 435-485
SetupCommand ==
    /\ c_pc = "body"
    /\ c_args.command = "setup"
    /\ IF ~c_args.ollama_up
       THEN /\ c_outcome' = Exit(3)
            /\ UNCHANGED <<c_config, default_config>>
       ELSE LET Returns == [kind |-> "return", code |-> 0]
                loaded == LoadConfig(c_args.user, default_config)
                ai == loaded.config["ai"]
                model_to_pull == ai.t = "dict" /\ "model" \in DOMAIN ai.d
            IN  /\ c_config' = loaded.config
                /\ default_config' = loaded.defaults
                /\ c_outcome' = IF ~model_to_pull THEN Exit(1)
                                ELSE IF c_args.pull = "failed" THEN Exit(1)
                                ELSE Returns
    /\ c_pc' = "handler"
    /\ UNCHANGED <<DEBUG, c_args, c_exit, c_runs, scanVars, ollamaVars, detectVars>>

\* what "except Exception" catches: typer.Exit is click.exceptions.Exit, a subclass
\* of RuntimeError
CaughtAsException == {"exception", "exit"}

\* the exit code of the process when this leaves the command
ExitCode(outcome) ==
    CASE outcome.kind = "return" -> 0
      [] outcome.kind = "exit" -> outcome.code
      [] outcome.kind = "exception" -> 1

\* _debug_exception_handler: what leaves the with statement
DebugExceptionHandler ==
    /\ c_pc = "handler"
    /\ c_exit' = IF c_outcome.kind \in CaughtAsException
                 THEN IF DEBUG THEN ExitCode(c_outcome)   \* raise
                      ELSE ExitCode(Exit(1))              \* raise typer.Exit(code=1)
                 ELSE ExitCode(c_outcome)
    /\ c_pc' = "exited"
    /\ UNCHANGED <<DEBUG, c_args, default_config, c_config, c_outcome, c_runs,
                   scanVars, ollamaVars, detectVars>>

NextCli ==
    \/ Main
    \/ ScanCommand
    \/ SetupCommand
    \/ DebugExceptionHandler

SpecCli == InitCli /\ [][NextCli]_vars

-----------------------------------------------------------------------------
(* Properties of the command line *)

\* C21: the exit code a command requests is the exit code of the invocation: scan
\* exits 0 when the scanner returned no findings, 1 when there are findings and
\* --fail-on-finding is set, setup exits 3 when Ollama is not reachable, and a
\* command that returns exits 0; the debug exception handler turns only unexpected
\* exceptions into exit code 1.
C21_ExitCodeAsRequested ==
    c_pc = "exited" =>
        /\ c_outcome.kind = "exit" => c_exit = c_outcome.code
        /\ c_outcome.kind = "return" => c_exit = 0
        /\ (c_args.command = "scan" /\ c_outcome = Exit(0)) => c_exit = 0
        /\ (c_args.command = "setup" /\ ~c_args.ollama_up) => c_exit = 3

-----------------------------------------------------------------------------
(* _parse_size on its own: the function is applied to every short string  *)
(* over the characters that matter to it.                                  *)

\* size strings of up to this many characters are explored
MaxSizeLen == 3

\* the argument: rules.max_file_size of a configuration, any short string
InitParseSize ==
    /\ OllamaIdle
    /\ DetectIdle
    /\ CliIdle
    /\ patched = TRUE
    /\ \E n \in 0..MaxSizeLen :
          \E size_str \in [1..n -> {"0", "1", " ", "-", "+", "k", "m", "B"}] :
              config = [confidence_threshold |-> [kind |-> "missing", val |-> 0],
                        excluded_paths |-> <<>>,
                        max_file_size |-> size_str,
                        detectors |-> <<>>]
    /\ root = 0
    /\ classifierKind = "confirm"
    /\ poolSize = 1
    /\ pc = "parse_size"
    /\ error = ""
    /\ detectors = <<>>
    /\ excluded_paths = <<>>
    /\ max_file_size = 0
    /\ files_to_scan = <<>>
    /\ submitted = 0
    /\ tasks = [f \in Files |-> NoTask]
    /\ collected = {}
    /\ findings = <<>>
    /\ progress = FALSE
    /\ progress_total = 0
    /\ progress_completed = 0

\* self.max_file_size = _parse_size(rules_config.get("max_file_size", "0"))
ParseSizeCall ==
    /\ pc = "parse_size"
    /\ LET ps == ParseSize(config.max_file_size)
       IN  /\ error' = ps.raised
           /\ max_file_size' = IF ps.raised = "" THEN ps.value ELSE max_file_size
    /\ pc' = "parsed"
    /\ UNCHANGED <<patched, config, root, classifierKind, poolSize, detectors,
                   excluded_paths, files_to_scan, submitted, tasks, collected, findings,
                   ollamaVars, detectVars, cliVars, progressVars>>

SpecParseSize == InitParseSize /\ [][ParseSizeCall]_vars

\* the size string is a non-negative integer followed by a unit, whatever the case
\* of the unit and the whitespace around the whole
IsSizeLiteral(size_str) ==
    LET s == Strip(Upper(size_str))
    IN  \E u \in Units :
          /\ Len(s) > Len(u)
          /\ LastN(s, Len(u)) = u
          /\ \A i \in 1..(Len(s) - Len(u)) : s[i] \in Digits

\* the number of bytes a size literal stands for
SizeLiteralValue(size_str) ==
    LET s == Strip(Upper(size_str))
        u == CHOOSE u \in Units :
                /\ Len(s) > Len(u)
                /\ LastN(s, Len(u)) = u
                /\ \A i \in 1..(Len(s) - Len(u)) : s[i] \in Digits
    IN  DigitsValue(DropLastN(s, Len(u)), 0) * UnitFactor(u)

\* C22: _parse_size is total: it returns without raising for every string; it returns
\* n * unit for a non-negative integer followed by B, KB, MB or GB (any case,
\* surrounding whitespace ignored) and 0 for every other string, the empty string
\* and a bare unit included.
C22_ParseSizeTotal ==
    pc = "parsed" =>
        /\ error = ""
        /\ max_file_size = IF IsSizeLiteral(config.max_file_size)
                           THEN SizeLiteralValue(config.max_file_size)
                           ELSE 0

-----------------------------------------------------------------------------
(* More properties of the scan *)

\* the list holds, once each, exactly the files under the root that pass the
\* exclusion globs and the size limit; only files of the list have a task, and every
\* file submitted so far has one
ListAndTasksAgree ==
    /\ Discovered =>
          /\ \A f \in FilesUnder(root) :
                (f \in Range(files_to_scan)) <=>
                    ~IsExcluded(f, excluded_paths, max_file_size)
          /\ Range(files_to_scan) \subseteq FilesUnder(root)
          /\ \A i, j \in 1..Len(files_to_scan) :
                files_to_scan[i] = files_to_scan[j] => i = j
    /\ \A f \in Files :
          tasks[f].state # "none" =>
              Discovered /\ \E i \in 1..submitted : files_to_scan[i] = f
    /\ \A i \in 1..submitted : tasks[files_to_scan[i]].state # "none"
    /\ pc = "returned" => submitted = Len(files_to_scan)

\* the list changes only while nothing is submitted; files are submitted one at a
\* time and a file that has a task is never submitted again
ListFixedOnceSubmitting ==
    /\ files_to_scan' # files_to_scan =>
          /\ submitted = 0 /\ submitted' = 0
          /\ \A f \in Files : tasks[f].state = "none" /\ tasks'[f].state = "none"
    /\ submitted' \in {submitted, submitted + 1}
    /\ \A f \in Files :
          tasks'[f].state = "queued" => tasks[f].state \in {"none", "queued"}

\* C23: in every execution of scan the exclusion-glob and size filtering of all files
\* is completed and the list of files to scan is fixed before the first task is
\* submitted; no detector is invoked on a file outside the list, and each file of the
\* list is submitted as exactly one task.
C23_FilterBeforeSubmit == []ListAndTasksAgree /\ [][ListFixedOnceSubmitting]_vars

\* a scan of the directory that excluded a file, ran detectors and the classifier on
\* two others, and returned
C23_Witness ==
    /\ pc = "returned"
    /\ root = 0
    /\ Len(files_to_scan) >= 2
    /\ \E f \in Files : IsExcluded(f, excluded_paths, max_file_size)
    /\ Cardinality({f \in Files : tasks[f].calls # <<>>}) >= 2

\* the entries of rules.detectors that are enabled and registered
EnabledRegistered ==
    {i \in 1..Len(config.detectors) :
        /\ "enabled" \in DOMAIN config.detectors[i].block
        /\ config.detectors[i].block["enabled"]
        /\ config.detectors[i].name \in DetectorRegistry}

\* self.detectors holds one detector per such entry, in the order of the entries,
\* each built with the entry's keys other than "enabled" and their values
DetectorsAsConfigured ==
    Constructed =>
        \E g \in [1..Len(detectors) -> 1..Len(config.detectors)] :
            /\ \A k, l \in 1..Len(detectors) : k < l => g[k] < g[l]
            /\ {g[k] : k \in 1..Len(detectors)} = EnabledRegistered
            /\ \A k \in 1..Len(detectors) :
                  LET block == config.detectors[g[k]].block
                      kwargs == detectors[k].kwargs
                  IN  /\ detectors[k].name = config.detectors[g[k]].name
                      /\ DOMAIN kwargs = DOMAIN block \ {"enabled"}
                      /\ \A key \in DOMAIN kwargs : kwargs[key] = block[key]

\* C24: FileScanner builds its detector list from rules.detectors in declaration
\* order: exactly one detector for each entry that is enabled and registered, none
\* for a disabled entry, each constructed with exactly the entry's keys other than
\* "enabled" and their values unchanged; the configuration is not modified.
C24_DetectorsFromConfig == []DetectorsAsConfigured /\ [][config' = config]_vars

\* a scanner built from a configuration with an enabled entry that has arguments, a
\* disabled entry and an entry without the key "enabled"
C24_Witness ==
    /\ pc = "constructed"
    /\ \E k \in 1..Len(detectors) : DOMAIN detectors[k].kwargs # {}
    /\ \E i \in 1..Len(config.detectors) :
          /\ "enabled" \in DOMAIN config.detectors[i].block
          /\ ~config.detectors[i].block["enabled"]
    /\ \E i \in 1..Len(config.detectors) :
          "enabled" \notin DOMAIN config.detectors[i].block

\* the task of file g has finished: it returned its findings or raised
Finished(g) == tasks[g].state \in {"returned", "raised"}

\* the task of g is the oldest one still waiting in the queue of the pool
OldestQueued(g) ==
    /\ tasks[g].state = "queued"
    /\ \A i \in 1..submitted :
          tasks[files_to_scan[i]].state = "queued" =>
              \E j \in 1..i : files_to_scan[j] = g

\* C25: with a pool of at least two workers, while the task of one file is blocked
\* inside a classifier call the tasks of the other files can still start, run their
\* detection and classification and complete: a task that runs can take its next
\* step, the oldest queued task can start when only the blocked task holds a worker,
\* the main thread can go on submitting; and scan returns once every task has
\* completed: it can hand out each finished task and then return, and has not
\* returned before.
C25_BlockedClassifierBlocksOnlyItsFile ==
    /\ \A f \in Files :
          (poolSize >= 2 /\ tasks[f].state = "classifying") =>
              /\ \A g \in Files \ {f} :
                    /\ tasks[g].state \in {"running", "classifying"} =>
                          ENABLED (ProcessCandidate(g) \/ ClassifyReturn(g) \/ TaskReturn(g))
                    /\ (OldestQueued(g) /\ Busy = {f}) => ENABLED StartTask(g)
              /\ (pc = "scanning" /\ ~AllSubmitted) => ENABLED Submit
              /\ \A g \in Files \ {f} :
                    (Finished(g) /\ g \notin collected /\ AllSubmitted) => ENABLED Collect(g)
    /\ (pc = "scanning" /\ AllSubmitted /\ \A g \in Range(files_to_scan) : Finished(g)) =>
          \/ \E g \in Range(files_to_scan) : g \notin collected /\ ENABLED Collect(g)
          \/ ENABLED ScanReturn
    /\ pc = "returned" => \A g \in Range(files_to_scan) : Finished(g)

\* two workers: the task of one file waits for the classifier while the task of
\* another file, started after it, has completed with a finding
C25_Witness ==
    /\ poolSize >= 2
    /\ \E f, g \in Files :
          /\ f # g
          /\ tasks[f].state = "classifying"
          /\ tasks[f].file_findings = <<>>
          /\ tasks[g].state = "returned"
          /\ tasks[g].file_findings # <<>>
          /\ \E i, j \in 1..Len(files_to_scan) :
                i < j /\ files_to_scan[i] = f /\ files_to_scan[j] = g

\* C26: an error while one candidate of a file is handled (a tuple the orchestrator
\* cannot interpret, a classifier call that raises) is absorbed for that candidate
\* only: the findings the task had already appended for other candidates of the
\* file are in the result of scan.
C26_CandidateErrorKeepsFileFindings ==
    pc = "returned" =>
        \A f \in Range(files_to_scan) :
            /\ Finished(f)
            /\ \A i \in 1..Len(tasks[f].file_findings) :
                  \E j \in 1..Len(findings) : findings[j] = tasks[f].file_findings[i]

-----------------------------------------------------------------------------
(* More properties of classify_candidate *)

\* C27: every value classify_candidate returns is a normalized result: is_secret is
\* a boolean and reason is a string, whatever the model put under "is_secret" and
\* "reason" in its JSON output, and also when either key is missing.
C27_ResultNormalized ==
    o_pc = "returned" =>
        /\ o_result.t = "dict"
        /\ o_result.is_secret.t = "bool"
        /\ o_result.reason.t = "str"

-----------------------------------------------------------------------------
(* More properties of the detectors *)

\* what a detector built from the single rule yields on one line numbered n
YieldOfRule(rule, line, n) ==
    LET outs == RegexDetectorDetect(RegexDetectorInit(<<rule>>), line)
    IN  [i \in 1..Len(outs) |-> <<outs[i][1], n, outs[i][3], outs[i][4]>>]

\* C28: an invalid regular expression among the rules of RegexDetector is skipped at
\* construction without raising; the detector holds exactly the valid patterns in
\* their original relative order, and detect yields exactly the candidates those
\* valid patterns produce: line by line, what each valid rule yields on its own.
C28_InvalidRuleSkipped ==
    (d_pc = "built" /\ d_self.kind = "Regex") =>
        LET valid == ValidRules(d_args)
            lines == Lines(d_content)
        IN  /\ d_self.patterns = [i \in 1..Len(valid) |-> ReCompile(valid[i]).pattern]
            /\ \A call \in 1..Len(d_outs) :
                  d_outs[call] =
                      Concat([n \in 1..Len(lines) |->
                          Concat([p \in 1..Len(valid) |->
                                     YieldOfRule(valid[p], lines[n], n)])])

\* a detector built from a valid rule, an invalid one and another valid one yielded
\* a candidate that only the rule after the invalid one produces
C28_Witness ==
    /\ Called("Regex")
    /\ Len(d_args) = 3
    /\ ReCompile(d_args[2]).error
    /\ Len(d_self.patterns) = 2
    /\ \E i \in 1..Len(d_outs[1]) :
          /\ \E n \in 1..Len(Lines(d_content)) :
                d_outs[1][i] \in Range(YieldOfRule(d_args[3], Lines(d_content)[n], n))
          /\ \A n \in 1..Len(Lines(d_content)) :
                d_outs[1][i] \notin Range(YieldOfRule(d_args[1], Lines(d_content)[n], n))

-----------------------------------------------------------------------------
(* More properties of the command line and of the configuration *)

\* C29: loading and overriding configuration never changes the defaults: after any
\* sequence of load_config calls, with or without a user file, and of command-line
\* overrides of a loaded configuration, DEFAULT_CONFIG has its original content, and
\* a load_config with no user file returns the original defaults.
C29_DefaultsNeverChange ==
    /\ default_config = DEFAULT_CONFIG
    /\ (/\ c_pc \in {"handler", "exited"}
        /\ c_args.command = "setup"
        /\ c_args.ollama_up
        /\ ~c_args.user.found) => c_config = DEFAULT_CONFIG

-----------------------------------------------------------------------------
(* Isolation of the file tasks *)

\* what _process_file gives for file g when it runs alone
Alone(g) == RunFile(g, FindCandidatesInFile(g, detectors), <<>>)

\* C30: file tasks are isolated from each other: an exception raised by the task of
\* one file never removes, changes or prevents the findings of another file and
\* never makes scan raise: scan does not end with an exception, and when it returns
\* every file whose task raises nothing when run alone has its findings in the
\* result, as one contiguous block in the order its task produced them, whatever
\* the other tasks did.
C30_TasksIsolated ==
    /\ pc # "scan_raised"
    /\ Discovered => error = ""
    /\ pc = "returned" =>
          \A g \in Range(files_to_scan) :
              ~Alone(g).raised =>
                  /\ tasks[g].state = "returned"
                  /\ tasks[g].file_findings = Alone(g).result
                  /\ IsBlockOf(Alone(g).result, findings)

\* scan returned: the task of one file raised after it had appended a finding, and
\* the findings of two other files are in the result
C30_Witness ==
    /\ pc = "returned"
    /\ \E f \in Files : tasks[f].state = "raised" /\ tasks[f].file_findings # <<>>
    /\ \E g, h \in Range(files_to_scan) :
          /\ g # h
          /\ ~Alone(g).raised /\ Alone(g).result # <<>>
          /\ ~Alone(h).raised /\ Alone(h).result # <<>>

====
